---- MODULE Spec2Model ----
(***************************************************************************)
(* Collaborative canvas server: RoomManager (rooms, sessions, timers),     *)
(* OperationLog (tombstoned undo/redo log) and VectorClock, with the       *)
(* socket handlers of the server that drive them.                          *)
(*                                                                         *)
(* Time is counted in minutes: 60000 ms = 1, 300000 ms = 5, 3600000 ms =   *)
(* 60.  Fields that no code path reads back (user.name, user.joinedAt,     *)
(* user.lastActivity, room.createdAt, the payload of a stroke) are left    *)
(* out of the records.                                                     *)
(***************************************************************************)
EXTENDS Integers, Sequences, FiniteSets, TLC

(***************************************************************************)
(* Bounds of the model.                                                    *)
(***************************************************************************)
\* Spec (rooms over time): connections, room ids, sessions created during a
\* run (generateUserId never repeats an id), advances of the wall clock
NumSockets == 2
NumRooms == 2
MaxUsers == 3
MaxTicks == 2
\* SpecAdmission (admission within one minute): connections, room ids,
\* sessions created during a run
AdmSockets == 4
AdmRooms == 1
AdmUsers == 5
\* SpecLog (one OperationLog): users that call it, ids it generates during a
\* run, ids of operations of other origin, the largest counter in their clocks
NumLogUsers == 2
MaxOps == 3
NumExtIds == 2
ExtClockMax == 1
\* values Math.random() * 360 is drawn from (the code: 0..359)
NumHues == 2
\* SpecCanvas (drawing in rooms): connections, room ids, sessions and
\* operations created during a run
CanvasSockets == 2
CanvasRooms == 1
CanvasUsers == 2
CanvasOps == 2

\* SpecServer (every handler and both timers): connections, room ids,
\* sessions and operations created during a run
SrvSockets == 2
SrvRooms == 1
SrvUsers == 2
SrvOps == 1

\* SpecRedo (a room whose log keeps OrderCapacity operations): operations
\* created during a run
RedoOps == 3

\* SpecWire (what the connections receive): authoritative events emitted
\* during a run
WireEvents == 6

\* SpecLive (rooms over unbounded time): connections and sessions created
\* during a run
LiveSockets == 2
LiveUsers == 2
\* SpecCompare, SpecSort (VectorClock on its own): the largest counter of a
\* clock, the events handed to sortEvents
ClockMax == 2
NumEvents == 3
\* SpecOrder (merges into one log): this.maxOperations of that log, so that
\* it can hold a cycle of three operations
OrderCapacity == 3
\* The code keeps 1000 operations per log (VectorClock.js:178), admits 20
\* users per room (part_003:14) and has a palette of 10
\* colors (part_002:37-41).  The model scales all three down, keeping
\* maxUsersPerRoom >= PaletteSize + 2 as in the code, so that a full room
\* and an exhausted palette are reached.
maxUsersPerRoom == 4
PaletteSize == 2
maxOperations == 2

RoomIds == 1..NumRooms
AdmRoomIds == 1..AdmRooms
Hues == 0..(NumHues - 1)
LogUsers == 1..NumLogUsers
ExtIds == (MaxOps + 1)..(MaxOps + NumExtIds)

(***************************************************************************)
(* Program constants (minutes).                                            *)
(***************************************************************************)
roomTimeout == 60
GraceDelay == 1
GraceAge == 1
ReaperInterval == 5
EmptyRoomAge == 5
TickSteps == {GraceDelay, ReaperInterval, roomTimeout}

\* CONFIG.USER_COLORS, cut to the first PaletteSize entries
ALL_USER_COLORS ==
    << "#FF6B6B", "#4ECDC4", "#45B7D1", "#FFA07A", "#98D8C8",
       "#F7DC6F", "#BB8FCE", "#85C1E2", "#F8B739", "#52B788" >>
USER_COLORS == SubSeq(ALL_USER_COLORS, 1, PaletteSize)

VARIABLES
    rooms,       \* RoomManager.rooms: roomId -> Room (DOMAIN = existing rooms)
    users,       \* RoomManager.users: socketId -> User (DOMAIN = sockets with a session)
    timers,      \* pending setTimeout callbacks of scheduleRoomCleanup
    nextReap,    \* earliest time of the next setInterval callback
    now,         \* Date.now()
    ticks,       \* how often the clock has advanced
    nextUserId,  \* the next id generateUserId hands out
    nextSocketId,\* the id of the next connection (socket.id is new for each)
    connected,   \* sockets whose connection is open
    ioRooms,     \* socket.io: open socket -> set of io rooms the socket joined
    out,         \* what the last handler sent: acks and emissions, in order
    oplog,       \* an OperationLog driven through its methods (SpecLog)
    ret,         \* the last method call on oplog and what it returned
    nextOpId,    \* the random part of the next generateOperationId
    inbox,       \* SpecWire, SpecSync: what each connection has been sent, in order
    clients      \* SpecClient: socket -> the browser client of the connection

serverVars == << rooms, users, timers, nextReap, nextUserId, nextSocketId,
                 connected, ioRooms, out, inbox, clients >>
logVars == << oplog, ret, nextOpId >>
vars == << rooms, users, timers, nextReap, now, ticks, nextUserId,
           nextSocketId, connected, ioRooms, out, oplog, ret, nextOpId, inbox,
           clients >>

(***************************************************************************)
(* Helpers on sequences and maps.                                          *)
(***************************************************************************)
Range(s) == { s[i] : i \in DOMAIN s }

\* Array.prototype.filter / Map.delete keeping insertion order
RemoveUser(us, id) == SelectSeq(us, LAMBDA u : u.id # id)

EmptyMap == [ x \in {} |-> x ]
MapRemove(f, k) == [ x \in (DOMAIN f) \ {k} |-> f[x] ]
MapPut(f, k, v) == [ x \in (DOMAIN f) \cup {k} |-> IF x = k THEN v ELSE f[x] ]

(***************************************************************************)
(* VectorClock.  A clock is a map userId -> counter; a missing key reads   *)
(* as 0 (clock[userId] || 0).                                              *)
(***************************************************************************)
ClockGet(clock, userId) == IF userId \in DOMAIN clock THEN clock[userId] ELSE 0

Max(a, b) == IF a >= b THEN a ELSE b

\* mutant: the increment raises every component of the clock
incrementAll(clock, userId) ==
    [ u \in (DOMAIN clock) \cup {userId} |-> ClockGet(clock, u) + 1 ]

increment(clock, userId) == MapPut(clock, userId, ClockGet(clock, userId) + 1)

update(clock, remoteClock) ==
    [ u \in (DOMAIN clock) \cup (DOMAIN remoteClock) |->
        IF u \in DOMAIN remoteClock
        THEN Max(ClockGet(clock, u), remoteClock[u])
        ELSE clock[u] ]

\* mutant: any smaller component makes clockA the earlier one
compareAnyLess(clockA, clockB) ==
    LET allUsers == (DOMAIN clockA) \cup (DOMAIN clockB)
        hasLess == \E u \in allUsers : ClockGet(clockA, u) < ClockGet(clockB, u)
        hasGreater == \E u \in allUsers : ClockGet(clockA, u) > ClockGet(clockB, u)
    IN  IF hasLess THEN -1
        ELSE IF hasGreater THEN 1
        ELSE 0

compare(clockA, clockB) ==
    LET allUsers == (DOMAIN clockA) \cup (DOMAIN clockB)
        hasLess == \E u \in allUsers : ClockGet(clockA, u) < ClockGet(clockB, u)
        hasGreater == \E u \in allUsers : ClockGet(clockA, u) > ClockGet(clockB, u)
    IN  IF hasLess /\ ~hasGreater THEN -1
        ELSE IF hasGreater /\ ~hasLess THEN 1
        ELSE 0

\* the comparator sortEvents hands to Array.prototype.sort
sortCompare(a, b) ==
    LET comparison == compare(a.vectorClock, b.vectorClock)
    IN  IF comparison # 0 THEN comparison ELSE a.timestamp - b.timestamp

(***************************************************************************)
(* Array.prototype.sort as Node (V8) runs it on an array shorter than 64:  *)
(* the leading run is found (and reversed when it is strictly descending), *)
(* then every later element is placed by binary insertion.                 *)
(***************************************************************************)
Reverse(a) == [ i \in DOMAIN a |-> a[Len(a) + 1 - i] ]

RECURSIVE ExtendRun(_, _, _)
\* the last index of the leading run, idx being the next index to examine
ExtendRun(a, idx, isDescending) ==
    IF idx > Len(a) THEN idx - 1
    ELSE LET order == sortCompare(a[idx], a[idx - 1])
         IN  IF isDescending /\ order >= 0 THEN idx - 1
             ELSE IF ~isDescending /\ order < 0 THEN idx - 1
             ELSE ExtendRun(a, idx + 1, isDescending)

RECURSIVE BinarySearch(_, _, _, _)
BinarySearch(a, pivot, left, right) ==
    IF left >= right THEN left
    ELSE LET mid == left + ((right - left) \div 2)
         IN  IF sortCompare(pivot, a[mid]) < 0
             THEN BinarySearch(a, pivot, left, mid)
             ELSE BinarySearch(a, pivot, mid + 1, right)

RECURSIVE BinaryInsertionSort(_, _)
\* a[1..start-1] is in place; insert a[start], a[start+1], ...
BinaryInsertionSort(a, start) ==
    IF start > Len(a) THEN a
    ELSE LET pivot == a[start]
             left == BinarySearch(a, pivot, 1, start)
         IN  BinaryInsertionSort(
                 SubSeq(a, 1, left - 1) \o << pivot >> \o
                 SubSeq(a, left, start - 1) \o SubSeq(a, start + 1, Len(a)),
                 start + 1)

sortEvents(events) ==
    IF Len(events) < 2 THEN events
    ELSE LET isDescending == sortCompare(events[2], events[1]) < 0
             runLength == ExtendRun(events, 3, isDescending)
             made == IF isDescending
                     THEN Reverse(SubSeq(events, 1, runLength)) \o
                          SubSeq(events, runLength + 1, Len(events))
                     ELSE events
         IN  BinaryInsertionSort(made, runLength + 1)

(***************************************************************************)
(* OperationLog.  A log is [roomId, operations, vectorClock,               *)
(* maxOperations, createdAt];                                              *)
(* each method is [log |-> the log after the call, result |-> its return   *)
(* value].  An operation id is userId_timestamp_random: the model keeps    *)
(* the random part, a number no two generated ids share.  An audit field   *)
(* that is not set reads 0 (undoneBy, redoneBy) or -1 (undoneAt,           *)
(* redoneAt).                                                              *)
(***************************************************************************)
NewOperationLog(roomId, t) ==
    [ roomId |-> roomId, operations |-> << >>, vectorClock |-> EmptyMap,
      maxOperations |-> maxOperations, createdAt |-> t ]

IsActive(op) == op.state = "active"
IsUndone(op) == op.state = "undone"

getActiveOperations(log) == SelectSeq(log.operations, IsActive)

\* mutant: the undone operations are left out
getAllOperationsActiveOnly(log) == SelectSeq(log.operations, IsActive)

\* [...this.operations]
getAllOperations(log) == log.operations

\* Array.prototype.find: the index of the first operation with this id, 0 if none
FindOperation(log, operationId) ==
    LET hits == { i \in DOMAIN log.operations : log.operations[i].id = operationId }
    IN  IF hits = {} THEN 0 ELSE CHOOSE i \in hits : \A k \in hits : i <= k

\* mutant: the trim leaves one operation too many
trimOperationsOffByOne(log) ==
    IF Len(log.operations) > log.maxOperations + 1
    THEN LET toRemove == Len(log.operations) - log.maxOperations - 1
         IN  [ log EXCEPT !.operations = SubSeq(@, toRemove + 1, Len(@)) ]
    ELSE log

\* mutant: the trim keeps the oldest operations and drops the newest
trimOperationsFromBack(log) ==
    IF Len(log.operations) > log.maxOperations
    THEN [ log EXCEPT !.operations = SubSeq(@, 1, log.maxOperations) ]
    ELSE log

trimOperations(log) ==
    IF Len(log.operations) > log.maxOperations
    THEN LET toRemove == Len(log.operations) - log.maxOperations
         IN  [ log EXCEPT !.operations = SubSeq(@, toRemove + 1, Len(@)) ]
    ELSE log

addOperation(log, userId, type, data, id, t) ==
    LET vectorClock == increment(log.vectorClock, userId)
        operation == [ id |-> id, type |-> type, data |-> data,
                       userId |-> userId, state |-> "active",
                       vectorClock |-> vectorClock, timestamp |-> t,
                       roomId |-> log.roomId,
                       undoneBy |-> 0, undoneAt |-> -1,
                       redoneBy |-> 0, redoneAt |-> -1 ]
    IN  [ log |-> trimOperations([ log EXCEPT !.vectorClock = vectorClock,
                                              !.operations = Append(@, operation) ]),
          result |-> operation ]

\* mutant: the undo of a clear gives back the operations the clear had undone
undoOperationRestoresCleared(log, operationId, userId, t) ==
    LET i == FindOperation(log, operationId)
    IN  IF i = 0
        THEN [ log |-> log,
               result |-> [ success |-> FALSE, error |-> "Operation not found" ] ]
        ELSE IF log.operations[i].state # "active"
        THEN [ log |-> log,
               result |-> [ success |-> FALSE, error |-> "Operation already undone" ] ]
        ELSE LET operation == [ log.operations[i] EXCEPT !.state = "undone",
                                                         !.undoneBy = userId,
                                                         !.undoneAt = t ]
                 restored(op) == IF operation.type = "clear" /\ op.state = "undone"
                                 THEN [ op EXCEPT !.state = "active" ] ELSE op
             IN  [ log |-> [ log EXCEPT !.operations =
                               [ k \in DOMAIN @ |-> IF k = i THEN operation
                                                    ELSE restored(@[k]) ] ],
                   result |-> [ success |-> TRUE, operation |-> operation ] ]

\* mutant: undo without the check of the operation's state
undoOperationAnyState(log, operationId, userId, t) ==
    LET i == FindOperation(log, operationId)
    IN  IF i = 0
        THEN [ log |-> log,
               result |-> [ success |-> FALSE, error |-> "Operation not found" ] ]
        ELSE LET operation == [ log.operations[i] EXCEPT !.state = "undone",
                                                         !.undoneBy = userId,
                                                         !.undoneAt = t ]
             IN  [ log |-> [ log EXCEPT !.operations[i] = operation ],
                   result |-> [ success |-> TRUE, operation |-> operation ] ]

undoOperation(log, operationId, userId, t) ==
    LET i == FindOperation(log, operationId)
    IN  IF i = 0
        THEN [ log |-> log,
               result |-> [ success |-> FALSE, error |-> "Operation not found" ] ]
        ELSE IF log.operations[i].state # "active"
        THEN [ log |-> log,
               result |-> [ success |-> FALSE, error |-> "Operation already undone" ] ]
        ELSE LET operation == [ log.operations[i] EXCEPT !.state = "undone",
                                                         !.undoneBy = userId,
                                                         !.undoneAt = t ]
             IN  [ log |-> [ log EXCEPT !.operations[i] = operation ],
                   result |-> [ success |-> TRUE, operation |-> operation ] ]

\* mutant: redo without the check of the operation's state
redoOperationAnyState(log, operationId, userId, t) ==
    LET i == FindOperation(log, operationId)
    IN  IF i = 0
        THEN [ log |-> log,
               result |-> [ success |-> FALSE, error |-> "Operation not found" ] ]
        ELSE LET operation == [ log.operations[i] EXCEPT !.state = "active",
                                                         !.redoneBy = userId,
                                                         !.redoneAt = t ]
             IN  [ log |-> [ log EXCEPT !.operations[i] = operation ],
                   result |-> [ success |-> TRUE, operation |-> operation ] ]

redoOperation(log, operationId, userId, t) ==
    LET i == FindOperation(log, operationId)
    IN  IF i = 0
        THEN [ log |-> log,
               result |-> [ success |-> FALSE, error |-> "Operation not found" ] ]
        ELSE IF log.operations[i].state # "undone"
        THEN [ log |-> log,
               result |-> [ success |-> FALSE, error |-> "Operation is not undone" ] ]
        ELSE LET operation == [ log.operations[i] EXCEPT !.state = "active",
                                                         !.redoneBy = userId,
                                                         !.redoneAt = t ]
             IN  [ log |-> [ log EXCEPT !.operations[i] = operation ],
                   result |-> [ success |-> TRUE, operation |-> operation ] ]

\* mutant: clear marks every other operation, whatever its state
MarkUndoneAnyState(op, clearId, userId, t) ==
    IF op.id # clearId
    THEN [ op EXCEPT !.state = "undone", !.undoneBy = userId, !.undoneAt = t ]
    ELSE op

\* the forEach of clearOperations
MarkUndone(op, clearId, userId, t) ==
    IF op.id # clearId /\ op.state = "active"
    THEN [ op EXCEPT !.state = "undone", !.undoneBy = userId, !.undoneAt = t ]
    ELSE op

clearOperations(log, userId, id, t) ==
    LET added == addOperation(log, userId, "clear",
                              [ clearedCount |-> Len(getActiveOperations(log)) ],
                              id, t)
        clearOp == added.result
    IN  [ log |-> [ added.log EXCEPT !.operations =
                      [ i \in DOMAIN @ |-> MarkUndone(@[i], clearOp.id, userId, t) ] ],
          result |-> clearOp ]

\* mutant: the scan runs from the front of the log
getFirstActiveOperation(log) ==
    LET hits == { i \in DOMAIN log.operations : IsActive(log.operations[i]) }
    IN  IF hits = {} THEN 0 ELSE CHOOSE i \in hits : \A k \in hits : i <= k

\* mutant: the scan runs from the front of the log
getFirstUndoneOperation(log) ==
    LET hits == { i \in DOMAIN log.operations : IsUndone(log.operations[i]) }
    IN  IF hits = {} THEN 0 ELSE CHOOSE i \in hits : \A k \in hits : i <= k

getLastActiveOperation(log) ==
    LET hits == { i \in DOMAIN log.operations : IsActive(log.operations[i]) }
    IN  IF hits = {} THEN 0 ELSE CHOOSE i \in hits : \A k \in hits : i >= k

getLastUndoneOperation(log) ==
    LET hits == { i \in DOMAIN log.operations : IsUndone(log.operations[i]) }
    IN  IF hits = {} THEN 0 ELSE CHOOSE i \in hits : \A k \in hits : i >= k

\* mutant: merge leaves the log's clock as it was
UpdateAllSkipped(clock, ops) == clock

RECURSIVE UpdateAll(_, _)
\* newOps.forEach(op => this.vectorClock.update(op.vectorClock))
UpdateAll(clock, ops) ==
    IF ops = << >> THEN clock
    ELSE UpdateAll(update(clock, Head(ops).vectorClock), Tail(ops))

mergeOperations(log, externalOperations) ==
    LET existing == { op.id : op \in Range(log.operations) }
        newOps == SelectSeq(externalOperations, LAMBDA op : op.id \notin existing)
        merged == [ log EXCEPT
                      !.vectorClock = UpdateAll(@, newOps),
                      !.operations = sortEvents(@ \o newOps) ]
        trimmed == trimOperations(merged)
    IN  [ log |-> trimmed,
          result |-> [ merged |-> Len(newOps), total |-> Len(trimmed.operations) ] ]

export(log, t) ==
    [ roomId |-> log.roomId, operations |-> log.operations,
      vectorClock |-> log.vectorClock, createdAt |-> log.createdAt,
      exportedAt |-> t ]

\* mutant: the import takes the operations and the clock, not createdAt
importKeepsCreatedAt(log, data, t) ==
    IF data.roomId # log.roomId
    THEN [ log |-> log, result |-> [ threw |-> TRUE, error |-> "Room ID mismatch" ] ]
    ELSE [ log |-> [ log EXCEPT !.operations = data.operations,
                                !.vectorClock = data.vectorClock ],
           result |-> [ threw |-> FALSE, error |-> "" ] ]

\* data.createdAt || Date.now(): a createdAt of 0 is replaced.  The data
\* handed in is an export, which has operations and vectorClock.
import(log, data, t) ==
    IF data.roomId # log.roomId
    THEN [ log |-> log, result |-> [ threw |-> TRUE, error |-> "Room ID mismatch" ] ]
    ELSE [ log |-> [ log EXCEPT !.operations = data.operations,
                                !.vectorClock = data.vectorClock,
                                !.createdAt = IF data.createdAt = 0 THEN t
                                              ELSE data.createdAt ],
           result |-> [ threw |-> FALSE, error |-> "" ] ]

(***************************************************************************)
(* RoomManager.  m is the manager's state [rooms, users, timers]; each     *)
(* method is the state after the call, or its return value.                *)
(***************************************************************************)
createRoom(m, roomId, t) ==
    IF roomId \in DOMAIN m.rooms
    THEN m
    ELSE [ m EXCEPT !.rooms = MapPut(@, roomId,
             [ id |-> roomId, users |-> << >>,
               operationLog |-> NewOperationLog(roomId, t),
               lastActivity |-> t ]) ]

getRoom(m, roomId, t) ==
    IF roomId \notin DOMAIN m.rooms THEN createRoom(m, roomId, t) ELSE m

\* the palette colors are strings, a generated color is hsl(<hue>, 70%, 60%):
\* distinct hues give distinct strings, and none equals a palette entry
generateRandomColor(hue) == [ hsl |-> hue ]
PaletteColor(i) == [ hex |-> USER_COLORS[i] ]

assignColor(room, hue) ==
    LET usedColors == { u.color : u \in Range(room.users) }
        free == { i \in DOMAIN USER_COLORS : PaletteColor(i) \notin usedColors }
    IN  IF free # {}
        THEN PaletteColor(CHOOSE i \in free : \A j \in free : i <= j)
        ELSE generateRandomColor(hue)

getRoomInfo(room) ==
    [ id |-> room.id,
      userCount |-> Len(room.users),
      users |-> [ i \in DOMAIN room.users |->
                    [ id |-> room.users[i].id, color |-> room.users[i].color ] ] ]

\* mutant: the capacity check admits one user too many
RoomIsFullOffByOne(room) == Len(room.users) > maxUsersPerRoom

RoomIsFull(room) == Len(room.users) >= maxUsersPerRoom

\* joinRoom: [m |-> state after, result |-> return value]
joinRoom(m, socketId, roomId, userId, hue, t) ==
    LET m1 == getRoom(m, roomId, t)
        room == m1.rooms[roomId]
        user == [ id |-> userId, socketId |-> socketId,
                  color |-> assignColor(room, hue), roomId |-> roomId ]
        room2 == [ room EXCEPT !.users = Append(@, user), !.lastActivity = t ]
    IN  IF RoomIsFull(room)
        THEN [ m |-> m1,
               result |-> [ success |-> FALSE, error |-> "Room is full" ] ]
        ELSE [ m |-> [ m1 EXCEPT !.rooms[roomId] = room2,
                                 !.users = MapPut(@, socketId, user) ],
               result |-> [ success |-> TRUE, user |-> user,
                            room |-> getRoomInfo(room2) ] ]

scheduleRoomCleanup(m, roomId, t) ==
    [ m EXCEPT !.timers = @ \cup { [ roomId |-> roomId, fireAt |-> t + GraceDelay ] } ]

\* mutant: leave takes the session out of the sessions map only
leaveRoomKeepsMember(m, socketId, t) ==
    IF socketId \notin DOMAIN m.users
    THEN [ m |-> m, result |-> [ left |-> FALSE ] ]
    ELSE LET user == m.users[socketId] IN
         IF user.roomId \notin DOMAIN m.rooms
         THEN [ m |-> m, result |-> [ left |-> FALSE ] ]
         ELSE [ m |-> [ m EXCEPT !.users = MapRemove(@, socketId) ],
                result |-> [ left |-> TRUE, user |-> user,
                             room |-> getRoomInfo(m.rooms[user.roomId]) ] ]

\* leaveRoom: [m |-> state after, result |-> return value (left = FALSE: null)]
leaveRoom(m, socketId, t) ==
    IF socketId \notin DOMAIN m.users
    THEN [ m |-> m, result |-> [ left |-> FALSE ] ]
    ELSE LET user == m.users[socketId] IN
         IF user.roomId \notin DOMAIN m.rooms
         THEN [ m |-> m, result |-> [ left |-> FALSE ] ]
         ELSE LET room == m.rooms[user.roomId]
                  room2 == [ room EXCEPT !.users = RemoveUser(@, user.id) ]
                  m2 == [ m EXCEPT !.rooms[user.roomId] = room2,
                                   !.users = MapRemove(@, socketId) ]
                  m3 == IF Len(room2.users) = 0
                        THEN scheduleRoomCleanup(m2, room.id, t)
                        ELSE m2
              IN  [ m |-> m3,
                    result |-> [ left |-> TRUE, user |-> user,
                                 room |-> getRoomInfo(room2) ] ]

\* broadcastToRoom: the emissions, one io.to(user.socketId).emit for each
\* member but excludeSocketId (0: none), none when there is no such room
broadcastToRoom(m, roomId, event, data, excludeSocketId) ==
    IF roomId \notin DOMAIN m.rooms
    THEN << >>
    ELSE LET members == SelectSeq(m.rooms[roomId].users,
                                  LAMBDA u : u.socketId # excludeSocketId)
         IN  [ i \in DOMAIN members |->
               [ to |-> {members[i].socketId}, event |-> event, body |-> data ] ]

broadcastToAll(m, roomId, event, data) ==
    IF roomId \notin DOMAIN m.rooms
    THEN << >>
    ELSE [ i \in DOMAIN m.rooms[roomId].users |->
             [ to |-> {m.rooms[roomId].users[i].socketId}, event |-> event,
               body |-> data ] ]

updateActivity(m, socketId, t) ==
    IF socketId \notin DOMAIN m.users
    THEN m
    ELSE LET user == m.users[socketId] IN
         IF user.roomId \in DOMAIN m.rooms
         THEN [ m EXCEPT !.rooms[user.roomId].lastActivity = t ]
         ELSE m

deleteRoom(m, roomId) ==
    IF roomId \notin DOMAIN m.rooms
    THEN m
    ELSE [ m EXCEPT !.rooms = MapRemove(@, roomId) ]

\* mutant: the callback deletes the room without looking at it again
cleanupCallbackUnchecked(m, roomId, t) == deleteRoom(m, roomId)

\* the callback scheduleRoomCleanup hands to setTimeout
cleanupCallback(m, roomId, t) ==
    IF /\ roomId \in DOMAIN m.rooms
       /\ Len(m.rooms[roomId].users) = 0
       /\ t - m.rooms[roomId].lastActivity > GraceAge
    THEN deleteRoom(m, roomId)
    ELSE m

\* mutant: the five-minute rule applies to a room with members too
ReaperDeletesOccupied(room, t) == t - room.lastActivity > EmptyRoomAge

\* the callback startCleanupTimer hands to setInterval
ReaperDeletes(room, t) ==
    LET inactiveTime == t - room.lastActivity
    IN  \/ Len(room.users) = 0 /\ inactiveTime > EmptyRoomAge
        \/ inactiveTime > roomTimeout

reaperCallback(m, t) ==
    LET toDelete == { r \in DOMAIN m.rooms : ReaperDeletes(m.rooms[r], t) }
    IN  [ m EXCEPT !.rooms = [ r \in (DOMAIN m.rooms) \ toDelete |-> m.rooms[r] ] ]

(***************************************************************************)
(* The server: one action per socket handler and per timer callback.       *)
(***************************************************************************)
Manager == [ rooms |-> rooms, users |-> users, timers |-> timers ]

SetManager(m) ==
    /\ rooms' = m.rooms
    /\ users' = m.users
    /\ timers' = m.timers

\* the sockets an emit to io room r reaches, given the io-room membership io
IoMembers(io, r) == { x \in DOMAIN io : r \in io[x] }

Ack(s, body) == [ to |-> {s}, event |-> "ack", body |-> body ]
Emit(to, event, body) == [ to |-> to, event |-> event, body |-> body ]

\* The events of which every peer of a room must see one order.
Authoritative ==
    { "remote_draw_end", "remote_undo", "remote_redo", "remote_clear",
      "user_joined", "user_left" }

\* No record of deliveries is kept (the specifications that do keep one
\* start from a box with the kinds of event they record).
NoInbox == [ next |-> 0, at |-> EmptyMap ]

\* mutant: a connection gets a later event ahead of the ones it already has
DeliverOneNewestFirst(box, e) ==
    LET entry == [ seq |-> box.next, event |-> e.event, body |-> e.body ]
    IN  [ box EXCEPT
            !.next = box.next + 1,
            !.at = [ x \in (DOMAIN box.at) \cup e.to |->
                       IF x \in e.to
                       THEN << entry >> \o
                            ( IF x \in DOMAIN box.at THEN box.at[x] ELSE << >> )
                       ELSE box.at[x] ] ]

\* emit: socket.io hands the event to each connection of e.to, behind what
\* it has handed to that connection before; seq counts the recorded
\* events in the order the server emits them
DeliverOne(box, e) ==
    LET entry == [ seq |-> box.next, event |-> e.event, body |-> e.body ]
    IN  [ box EXCEPT
            !.next = box.next + 1,
            !.at = [ x \in (DOMAIN box.at) \cup e.to |->
                       IF x \in e.to
                       THEN ( IF x \in DOMAIN box.at THEN box.at[x] ELSE << >> )
                            \o << entry >>
                       ELSE box.at[x] ] ]

RECURSIVE Deliver(_, _)
\* the emissions of one handler, in the order of its code
Deliver(box, emissions) ==
    IF box = NoInbox \/ emissions = << >> THEN box
    ELSE Deliver(IF Head(emissions).event \in box.kinds
                 THEN DeliverOne(box, Head(emissions))
                 ELSE box,
                 Tail(emissions))

(***************************************************************************)
(* The two directions of a connection when its browser client is modelled: *)
(* client c has sent the messages of clients[c].outbox, which the server   *)
(* has not handled yet, and has been sent the events of                    *)
(* clients[c].pending, which it has not handled yet.  socket.io keeps the  *)
(* order of each direction.  Where no client is modelled, clients is the   *)
(* empty map.                                                              *)
(***************************************************************************)
NoClients == EmptyMap

\* The server events whose handler in the client changes its StateManager
\* (sync_state is emitted on a join only).
StateManagerEvents ==
    { "remote_draw_end", "remote_undo", "remote_redo", "remote_clear" }

\* the handler of socket s has taken the message at the head of s's outbox
Taken(cl, s) ==
    IF s \in DOMAIN cl /\ cl[s].outbox # << >>
    THEN [ cl EXCEPT ![s].outbox = Tail(@) ]
    ELSE cl

RECURSIVE Sent(_, _)
\* the emissions of a handler go behind what each recipient has pending
Sent(cl, emissions) ==
    IF emissions = << >> THEN cl
    ELSE LET e == Head(emissions)
             queued == IF e.event \in StateManagerEvents
                       THEN [ c \in DOMAIN cl |->
                                IF c \in e.to
                                THEN [ cl[c] EXCEPT !.pending =
                                         Append(@, [ event |-> e.event,
                                                     body |-> e.body ]) ]
                                ELSE cl[c] ]
                       ELSE cl
         IN  Sent(queued, Tail(emissions))

\* a handler of socket s (0: a timer or a new connection) has run
Served(cl, s, emissions) == Sent(Taken(cl, s), emissions)

Init ==
    /\ rooms = EmptyMap
    /\ users = EmptyMap
    /\ timers = {}
    /\ nextReap = ReaperInterval
    /\ now = 0
    /\ ticks = 0
    /\ nextUserId = 1
    /\ nextSocketId = 1
    /\ connected = {}
    /\ ioRooms = EmptyMap
    /\ out = << >>
    /\ inbox = NoInbox
    /\ clients = NoClients
    /\ oplog = NewOperationLog(1, 0)
    /\ ret = [ call |-> "new" ]
    /\ nextOpId = 1

\* io.on('connection'): a connection opens and gets a socket id
Connect ==
    /\ connected' = connected \cup {nextSocketId}
    /\ ioRooms' = MapPut(ioRooms, nextSocketId, {})
    /\ nextSocketId' = nextSocketId + 1
    /\ out' = << >>
    /\ UNCHANGED << rooms, users, timers, nextReap, now, ticks, nextUserId >>
    /\ UNCHANGED logVars
    /\ inbox' = Deliver(inbox, out')
    /\ clients' = Served(clients, 0, out')

\* socket.on(EVENTS.JOIN_ROOM)
JoinRoom(s, r, hue) ==
    /\ s \in connected
    /\ LET j == joinRoom(Manager, s, r, nextUserId, hue, now)
           io == [ ioRooms EXCEPT ![s] = @ \cup {r} ]
           operations == getAllOperations(j.m.rooms[r].operationLog)
       IN  IF j.result.success
           THEN /\ SetManager(j.m)
                /\ nextUserId' = nextUserId + 1
                /\ ioRooms' = io
                /\ out' = << Ack(s, [ success |-> TRUE,
                                      userId |-> j.result.user.id,
                                      user |-> j.result.user,
                                      room |-> j.result.room ]),
                             Emit(IoMembers(io, r) \ {s}, "user_joined",
                                  [ user |-> [ id |-> j.result.user.id,
                                               color |-> j.result.user.color ] ]),
                             Emit({s}, "users_list",
                                  [ users |-> j.result.room.users ]) >>
                           \o ( IF Len(operations) > 0
                                THEN << Emit({s}, "sync_state",
                                             [ operations |-> operations ]) >>
                                ELSE << >> )
           ELSE /\ SetManager(j.m)
                /\ out' = << Ack(s, [ success |-> FALSE,
                                      error |-> j.result.error ]) >>
                /\ UNCHANGED << nextUserId, ioRooms >>
    /\ UNCHANGED << nextReap, now, ticks, nextSocketId, connected >>
    /\ UNCHANGED logVars
    /\ inbox' = Deliver(inbox, out')
    /\ clients' = Served(clients, s, out')

\* socket.on('disconnect'); socket.io has taken the socket out of its io
\* rooms when the handler runs, and the socket id is not used again
Disconnect(s) ==
    /\ s \in connected
    /\ LET l == leaveRoom(Manager, s, now)
           io == MapRemove(ioRooms, s)
       IN  /\ SetManager(l.m)
           /\ ioRooms' = io
           /\ out' = IF l.result.left
                     THEN << Emit(IoMembers(io, l.result.user.roomId) \ {s},
                                  "user_left",
                                  [ user |-> [ id |-> l.result.user.id ] ]) >>
                          \o ( IF Len(l.result.room.users) > 0
                               THEN << Emit(IoMembers(io, l.result.user.roomId),
                                            "users_list",
                                            [ users |-> l.result.room.users ]) >>
                               ELSE << >> )
                     ELSE << >>
    /\ connected' = connected \ {s}
    /\ UNCHANGED << nextReap, now, ticks, nextUserId, nextSocketId >>
    /\ UNCHANGED logVars
    /\ inbox' = Deliver(inbox, out')
    /\ clients' = Served(clients, s, out')

\* socket.on(EVENTS.DRAW_START)
DrawStart(s) ==
    /\ s \in connected
    /\ IF s \notin DOMAIN users
       THEN /\ out' = << >>
            /\ UNCHANGED << rooms, users, timers >>
       ELSE /\ SetManager(updateActivity(Manager, s, now))
            /\ out' = << Emit(IoMembers(ioRooms, users[s].roomId) \ {s},
                              "remote_draw_batch",
                              [ userId |-> users[s].id ]) >>
    /\ UNCHANGED << nextReap, now, ticks, nextUserId, nextSocketId, connected,
                    ioRooms >>
    /\ UNCHANGED logVars
    /\ inbox' = Deliver(inbox, out')
    /\ clients' = Served(clients, s, out')

\* the setTimeout callback of scheduleRoomCleanup; a timer fires at its
\* deadline or later
GraceCheck(tm) ==
    /\ tm \in timers
    /\ now >= tm.fireAt
    /\ SetManager(cleanupCallback([ Manager EXCEPT !.timers = @ \ {tm} ],
                                  tm.roomId, now))
    /\ out' = << >>
    /\ UNCHANGED << nextReap, now, ticks, nextUserId, nextSocketId, connected,
                    ioRooms >>
    /\ UNCHANGED logVars
    /\ inbox' = Deliver(inbox, out')
    /\ clients' = Served(clients, 0, out')

\* the setInterval callback of startCleanupTimer
Reaper ==
    /\ now >= nextReap
    /\ SetManager(reaperCallback(Manager, now))
    /\ nextReap' = now + ReaperInterval
    /\ out' = << >>
    /\ UNCHANGED << now, ticks, nextUserId, nextSocketId, connected, ioRooms >>
    /\ UNCHANGED logVars
    /\ inbox' = Deliver(inbox, out')
    /\ clients' = Served(clients, 0, out')

\* the wall clock advances
Tick(d) ==
    /\ ticks < MaxTicks
    /\ now' = now + d
    /\ ticks' = ticks + 1
    /\ UNCHANGED serverVars
    /\ UNCHANGED logVars

Next ==
    \/ nextSocketId <= NumSockets /\ Connect
    \/ \E s \in connected, r \in RoomIds, hue \in Hues :
          nextUserId <= MaxUsers /\ JoinRoom(s, r, hue)
    \/ \E s \in connected : Disconnect(s)
    \/ \E s \in connected : DrawStart(s)
    \/ \E tm \in timers : GraceCheck(tm)
    \/ Reaper
    \/ \E d \in TickSteps : Tick(d)

Spec == Init /\ [][Next]_vars

(***************************************************************************)
(* Admission: joins and disconnects of many connections within one minute  *)
(* (no timer fires).                                                       *)
(***************************************************************************)
NextAdmission ==
    \/ nextSocketId <= AdmSockets /\ Connect
    \/ \E s \in connected, r \in AdmRoomIds, hue \in Hues :
          nextUserId <= AdmUsers /\ JoinRoom(s, r, hue)
    \/ \E s \in connected : Disconnect(s)

SpecAdmission == Init /\ [][NextAdmission]_vars

(***************************************************************************)
(* One OperationLog, driven through its methods.                           *)
(***************************************************************************)
StrokeData == [ stroke |-> TRUE ]

\* operations of another origin (a peer's history) that merge may be handed
ExtTimes == {MaxTicks}
ExternalOps ==
    { [ id |-> id, type |-> "stroke", data |-> StrokeData, userId |-> u,
        state |-> "active", vectorClock |-> MapPut(EmptyMap, u, c),
        timestamp |-> t, roomId |-> 1,
        undoneBy |-> 0, undoneAt |-> -1, redoneBy |-> 0, redoneAt |-> -1 ]
      : id \in ExtIds, u \in LogUsers, c \in 1..ExtClockMax, t \in ExtTimes }

\* the lists merge is called with: one operation, external or a copy of one
\* in the log; or two external ones, the same one twice or two with different ids
ExternalLists ==
    { << x >> : x \in ExternalOps \cup Range(oplog.operations) } \cup
    { << p[1], p[2] >> : p \in { q \in ExternalOps \X ExternalOps :
                                    q[1] = q[2] \/ q[1].id < q[2].id } }

\* the ids undo and redo are called with: every id generated so far and the
\* external ids, in the log or not
KnownIds == 1..(nextOpId - 1) \cup ExtIds

\* what ret keeps of an undo or redo result: success and the error text
Outcome(result) ==
    IF result.success
    THEN [ success |-> TRUE, error |-> "" ]
    ELSE [ success |-> FALSE, error |-> result.error ]

LogAddOperation(u) ==
    /\ nextOpId <= MaxOps
    /\ LET r == addOperation(oplog, u, "stroke", StrokeData, nextOpId, now)
       IN  /\ oplog' = r.log
           /\ ret' = [ call |-> "addOperation", result |-> r.result.id ]
    /\ nextOpId' = nextOpId + 1
    /\ UNCHANGED << serverVars, now, ticks >>

LogUndoOperation(id, u) ==
    /\ LET r == undoOperation(oplog, id, u, now)
       IN  /\ oplog' = r.log
           /\ ret' = [ call |-> "undoOperation", operationId |-> id,
                       result |-> Outcome(r.result) ]
    /\ UNCHANGED << serverVars, now, ticks, nextOpId >>

LogRedoOperation(id, u) ==
    /\ LET r == redoOperation(oplog, id, u, now)
       IN  /\ oplog' = r.log
           /\ ret' = [ call |-> "redoOperation", operationId |-> id,
                       result |-> Outcome(r.result) ]
    /\ UNCHANGED << serverVars, now, ticks, nextOpId >>

LogClearOperations(u) ==
    /\ nextOpId <= MaxOps
    /\ LET r == clearOperations(oplog, u, nextOpId, now)
       IN  /\ oplog' = r.log
           /\ ret' = [ call |-> "clearOperations", result |-> r.result.id ]
    /\ nextOpId' = nextOpId + 1
    /\ UNCHANGED << serverVars, now, ticks >>

LogMergeOperations(ext) ==
    /\ LET r == mergeOperations(oplog, ext)
       IN  /\ oplog' = r.log
           /\ ret' = [ call |-> "mergeOperations", result |-> r.result ]
    /\ UNCHANGED << serverVars, now, ticks, nextOpId >>

\* append, undo, redo and clear by several users
NextLog ==
    \/ \E u \in LogUsers : LogAddOperation(u)
    \/ \E id \in KnownIds, u \in LogUsers : LogUndoOperation(id, u)
    \/ \E id \in KnownIds, u \in LogUsers : LogRedoOperation(id, u)
    \/ \E u \in LogUsers : LogClearOperations(u)

SpecLog == Init /\ [][NextLog]_vars

\* the same with merge; the methods are called by one user, the external
\* operations are of any user
NextMerge ==
    \/ LogAddOperation(1)
    \/ \E id \in KnownIds : LogUndoOperation(id, 1)
    \/ \E id \in KnownIds : LogRedoOperation(id, 1)
    \/ LogClearOperations(1)
    \/ \E ext \in ExternalLists : LogMergeOperations(ext)

SpecMerge == Init /\ [][NextMerge]_vars

(***************************************************************************)
(* Properties of the RoomManager.                                          *)
(***************************************************************************)
Members(r) == Range(rooms[r].users)
\* the connections opened so far
AllSockets == 1..(nextSocketId - 1)

\* C1: a session is in the sessions map iff it is a member of the existing
\* room its roomId names.
SessionsMatchMembership ==
    /\ \A s \in DOMAIN users :
          /\ users[s].roomId \in DOMAIN rooms
          /\ users[s] \in Members(users[s].roomId)
    /\ \A r \in DOMAIN rooms : \A u \in Members(r) :
          /\ u.socketId \in DOMAIN users
          /\ users[u.socketId] = u
          /\ u.roomId = r

\* C2: once the disconnect handler (leaveRoom) has run for a connection, no
\* room's membership holds a session of that connection and the sessions map
\* has no entry for it.
LeaveRemovesConnection ==
    \A s \in AllSockets \ connected :
        /\ s \notin DOMAIN users
        /\ \A r \in DOMAIN rooms : \A u \in Members(r) : u.socketId # s

\* C3: every room's membership has at most maxUsersPerRoom sessions.
MembershipWithinCapacity ==
    \A r \in DOMAIN rooms : Len(rooms[r].users) <= maxUsersPerRoom

\* C3 witness: a join_room has just been refused by a room that holds
\* maxUsersPerRoom sessions.
FullRoomRefusedJoin ==
    /\ Len(out) = 1
    /\ out[1].event = "ack"
    /\ ~out[1].body.success
    /\ \E r \in DOMAIN rooms : Len(rooms[r].users) = maxUsersPerRoom

\* what C4 says of one step, the refusal carrying the error text err
FullRoomAdmission(err) ==
    /\ \A s \in AllSockets, r \in DOMAIN rooms, hue \in Hues :
          ( Len(rooms[r].users) >= maxUsersPerRoom /\ JoinRoom(s, r, hue) )
          => /\ out' = << Ack(s, [ success |-> FALSE, error |-> err ]) >>
             /\ UNCHANGED << rooms, users, nextUserId, ioRooms >>
    /\ \A s \in DOMAIN users :
          ( /\ users[s].roomId \in DOMAIN rooms
            /\ users[s] \in Members(users[s].roomId)
            /\ Len(rooms[users[s].roomId].users) >= maxUsersPerRoom
            /\ Disconnect(s) )
          => LET r == users[s].roomId
                 after == [ rooms |-> rooms', users |-> users', timers |-> timers' ]
             IN  \A s2 \in connected', hue \in Hues :
                     LET j == joinRoom(after, s2, r, nextUserId, hue, now)
                     IN  /\ j.result.success
                         /\ Len(j.m.rooms[r].users) = Len(rooms'[r].users) + 1

UniqueColorsWithinPalette ==
    \A r \in DOMAIN rooms :
        Len(rooms[r].users) <= Len(USER_COLORS)
        => \A i, k \in DOMAIN rooms[r].users :
               i # k => rooms[r].users[i].color # rooms[r].users[k].color

\* the operation with this id, as the log holds it
OperationAt(log, operationId) == log.operations[FindOperation(log, operationId)]
\* the ids the log has generated so far
GeneratedIds == 1..(nextOpId - 1)
NotFound == [ success |-> FALSE, error |-> "Operation not found" ]

\* C6: the operation log holds at most maxOperations entries, whatever
\* appends, clears, merges, undos and redos have been made.
LogWithinMaxOperations == Len(oplog.operations) <= maxOperations

\* C6 witness: a merge has added two operations to a log that was not empty
\* and the trim has cut the result to maxOperations, an operation of the log
\* itself staying
MergeTrimmedToMaxOperations ==
    /\ ret.call = "mergeOperations"
    /\ ret.result = [ merged |-> 2, total |-> maxOperations ]
    /\ \E i \in DOMAIN oplog.operations : oplog.operations[i].id \in GeneratedIds

\* C7: an append to a log of exactly maxOperations entries removes the entry
\* at the front, whatever its state, keeps the others in order and puts the
\* new operation last; an undo or a redo that names an id the trim has removed
\* fails with "Operation not found" and changes nothing.
AppendAtMaxDropsOldest ==
    [][ /\ \A u \in LogUsers :
              ( Len(oplog.operations) = maxOperations /\ LogAddOperation(u) )
              => /\ Len(oplog'.operations) = maxOperations
                 /\ SubSeq(oplog'.operations, 1, maxOperations - 1)
                        = Tail(oplog.operations)
                 /\ oplog'.operations[maxOperations].id = nextOpId
                 /\ oplog'.operations[maxOperations].userId = u
                 /\ oplog'.operations[maxOperations].state = "active"
        /\ \A id \in GeneratedIds, u \in LogUsers :
              ( /\ FindOperation(oplog, id) = 0
                /\ LogUndoOperation(id, u) \/ LogRedoOperation(id, u) )
              => /\ ret'.result = NotFound
                 /\ oplog' = oplog
      ]_vars

\* C7 witness: the log is at maxOperations and an undo has just named an id
\* that an append removed from the front
UndoOfTrimmedOperationNotFound ==
    /\ ret.call = "undoOperation"
    /\ ret.operationId \in GeneratedIds
    /\ FindOperation(oplog, ret.operationId) = 0
    /\ ret.result = NotFound
    /\ Len(oplog.operations) = maxOperations

\* C8: undo of an active operation makes it undone and records the actor in
\* undoneBy; undo of an operation that is already undone, by the same or by
\* another actor, fails and leaves that operation and all the others as they
\* were.
UndoOnceOnly ==
    [][ \A id \in KnownIds, u \in LogUsers :
            ( FindOperation(oplog, id) # 0 /\ LogUndoOperation(id, u) )
            => LET i == FindOperation(oplog, id)
               IN  IF oplog.operations[i].state = "active"
                   THEN /\ ret'.result.success
                        /\ oplog' = [ oplog EXCEPT
                                        !.operations[i].state = "undone",
                                        !.operations[i].undoneBy = u,
                                        !.operations[i].undoneAt = now ]
                   ELSE /\ ~ret'.result.success
                        /\ oplog' = oplog
      ]_vars

\* C8 witness: an undo of an operation that is undone has just failed; the
\* operation is undone, with the undoneBy of the first undo, an actor other than
\* its author
SecondUndoRefused ==
    /\ ret.call = "undoOperation"
    /\ ret.result = [ success |-> FALSE, error |-> "Operation already undone" ]
    /\ \E u \in LogUsers :
          /\ OperationAt(oplog, ret.operationId).state = "undone"
          /\ OperationAt(oplog, ret.operationId).undoneBy = u
          /\ OperationAt(oplog, ret.operationId).userId # u

\* C9: redo succeeds only on an operation that is undone, and makes it
\* active again, so undo then redo of an active operation gives an active one;
\* a further redo fails, and a redo that fails changes nothing.
RedoOnlyWhenUndone ==
    [][ \A id \in KnownIds, u \in LogUsers :
            LogRedoOperation(id, u)
            => LET i == FindOperation(oplog, id)
               IN  /\ ret'.result.success
                        <=> ( i # 0 /\ oplog.operations[i].state = "undone" )
                   /\ ret'.result.success
                        => /\ oplog'.operations[i].state = "active"
                           /\ \A k \in DOMAIN oplog.operations :
                                 k # i => oplog'.operations[k] = oplog.operations[k]
                           /\ Len(oplog'.operations) = Len(oplog.operations)
                   /\ ~ret'.result.success => oplog' = oplog
      ]_vars

\* C9 witness: an operation was undone and redone, and a further redo of it
\* has just failed
SecondRedoRefused ==
    /\ ret.call = "redoOperation"
    /\ ret.result = [ success |-> FALSE, error |-> "Operation is not undone" ]
    /\ OperationAt(oplog, ret.operationId).state = "active"
    /\ OperationAt(oplog, ret.operationId).undoneBy # 0
    /\ OperationAt(oplog, ret.operationId).redoneBy # 0

ClearUndoRedoTouchesClearOnly ==
    [][ \A id \in KnownIds, u \in LogUsers :
            ( /\ FindOperation(oplog, id) # 0
              /\ OperationAt(oplog, id).type = "clear"
              /\ LogUndoOperation(id, u) \/ LogRedoOperation(id, u) )
            => LET i == FindOperation(oplog, id)
               IN  /\ Len(oplog'.operations) = Len(oplog.operations)
                   /\ \A k \in DOMAIN oplog.operations :
                         k # i => oplog'.operations[k] = oplog.operations[k]
      ]_vars

\* C11 witness: a clear that had made an operation undone was undone and has
\* just been redone; the operation it cleared is still undone
ClearRedoneOthersStillUndone ==
    /\ ret.call = "redoOperation"
    /\ ret.result.success
    /\ OperationAt(oplog, ret.operationId).type = "clear"
    /\ OperationAt(oplog, ret.operationId).undoneBy # 0
    /\ \E i \in DOMAIN oplog.operations :
          /\ oplog.operations[i].type = "stroke"
          /\ oplog.operations[i].state = "undone"
          /\ oplog.operations[i].undoneBy = OperationAt(oplog, ret.operationId).userId
          /\ oplog.operations[i].undoneAt = OperationAt(oplog, ret.operationId).timestamp

\* the users a clock of the log or of one of its operations can name
ClockUsers(log) ==
    DOMAIN log.vectorClock \cup
    UNION { DOMAIN log.operations[i].vectorClock : i \in DOMAIN log.operations }

\* C12: an append or a clear by user u raises component u of the log's
\* vector clock by exactly 1 and leaves the other components as they were; the
\* new operation carries the resulting clock, and the clocks of the operations
\* already in the log are not altered by it.
AppendIncrementsOwnComponent ==
    [][ \A u \in LogUsers :
            ( LogAddOperation(u) \/ LogClearOperations(u) )
            => LET n == Len(oplog'.operations)
               IN  /\ ClockGet(oplog'.vectorClock, u)
                         = ClockGet(oplog.vectorClock, u) + 1
                   /\ \A w \in (ClockUsers(oplog) \cup ClockUsers(oplog')) \ {u} :
                         ClockGet(oplog'.vectorClock, w) = ClockGet(oplog.vectorClock, w)
                   /\ oplog'.operations[n].id = nextOpId
                   /\ oplog'.operations[n].vectorClock = oplog'.vectorClock
                   /\ \A i \in DOMAIN oplog.operations, k \in DOMAIN oplog'.operations :
                         oplog.operations[i].id = oplog'.operations[k].id
                         => oplog'.operations[k].vectorClock
                                = oplog.operations[i].vectorClock
      ]_vars

\* C12 witness: two users have appended; the first operation still carries
\* the clock of its own append, the second the log's clock with both components
TwoUsersAppended ==
    /\ ret.call = "addOperation"
    /\ Len(oplog.operations) = 2
    /\ oplog.operations[1].userId # oplog.operations[2].userId
    /\ oplog.operations[2].vectorClock = oplog.vectorClock
    /\ oplog.operations[1].vectorClock # oplog.vectorClock
    /\ \A u \in LogUsers : ClockGet(oplog.vectorClock, u) >= 1

\* clock a is at least clock b in every component
Dominates(a, b) ==
    \A w \in DOMAIN a \cup DOMAIN b : ClockGet(a, w) >= ClockGet(b, w)

\* C13: an operation created by append or clear has vectorClock[userId] >= 1
\* and a vector clock that is, in every component, at least the vector clock
\* of every operation that was in the log when it was created, merged ones
\* included; no step lowers a component of the log's clock.
CreatedClockDominatesLog ==
    [][ /\ Dominates(oplog'.vectorClock, oplog.vectorClock)
        /\ ( LogAddOperation(1) \/ LogClearOperations(1) )
           => LET created == oplog'.operations[Len(oplog'.operations)]
              IN  /\ created.id = nextOpId
                  /\ ClockGet(created.vectorClock, created.userId) >= 1
                  /\ \A i \in DOMAIN oplog.operations :
                        Dominates(created.vectorClock, oplog.operations[i].vectorClock)
      ]_vars

\* C13 witness: an operation has just been appended to a log that holds a
\* merged operation of another user, whose component its clock carries
AppendedAfterMergedOperation ==
    /\ ret.call = "addOperation"
    /\ Len(oplog.operations) = 2
    /\ oplog.operations[2].id = ret.result
    /\ oplog.operations[1].id \in ExtIds
    /\ oplog.operations[1].userId # oplog.operations[2].userId
    /\ ClockGet(oplog.operations[2].vectorClock, oplog.operations[1].userId) >= 1

(***************************************************************************)
(* VectorClock on its own: compare and sortEvents applied to arguments     *)
(* drawn from bounded sets.  ret holds the arguments, then the results.    *)
(***************************************************************************)
\* the server before anything has happened
ServerAtStart ==
    /\ rooms = EmptyMap
    /\ users = EmptyMap
    /\ timers = {}
    /\ nextReap = ReaperInterval
    /\ ticks = 0
    /\ nextUserId = 1
    /\ nextSocketId = 1
    /\ connected = {}
    /\ ioRooms = EmptyMap
    /\ out = << >>
    /\ inbox = NoInbox
    /\ clients = NoClients
    /\ nextOpId = 1

\* clocks of the users of LogUsers, any of the keys missing
Clocks == UNION { [ D -> 0..ClockMax ] : D \in SUBSET LogUsers }

InitCompare ==
    /\ ServerAtStart
    /\ now = 0
    /\ oplog = NewOperationLog(1, 0)
    /\ ret \in { [ call |-> "clocks", clockA |-> a, clockB |-> b, clockC |-> c ] :
                 a \in Clocks, b \in Clocks, c \in Clocks }

\* vc.compare on each pair of the three clocks
Compare ==
    /\ ret.call = "clocks"
    /\ ret' = [ call |-> "compare",
                clockA |-> ret.clockA, clockB |-> ret.clockB, clockC |-> ret.clockC,
                aa |-> compare(ret.clockA, ret.clockA),
                ab |-> compare(ret.clockA, ret.clockB),
                ba |-> compare(ret.clockB, ret.clockA),
                bc |-> compare(ret.clockB, ret.clockC),
                ac |-> compare(ret.clockA, ret.clockC) ]
    /\ UNCHANGED << serverVars, now, ticks, oplog, nextOpId >>

NextCompare == Compare

SpecCompare == InitCompare /\ [][NextCompare]_vars

\* C14: compare returns -1, 0 or 1; compare(A, A) = 0; compare(A, B) =
\* -compare(B, A); compare(A, B) = -1 and compare(B, C) = -1 give
\* compare(A, C) = -1; a missing key counts as 0.
CompareIsStrictPartialOrder ==
    ret.call = "compare"
    => /\ { ret.aa, ret.ab, ret.ba, ret.bc, ret.ac } \subseteq { -1, 0, 1 }
       /\ ret.aa = 0
       /\ ret.ab = 0 - ret.ba
       /\ ( ret.ab = -1 /\ ret.bc = -1 ) => ret.ac = -1

\* C14 witness: A before B before C, where A lacks a key that C has
ChainWithMissingKey ==
    /\ ret.call = "compare"
    /\ ret.ab = -1
    /\ ret.bc = -1
    /\ DOMAIN ret.clockA # DOMAIN ret.clockC
    /\ DOMAIN ret.clockA # DOMAIN ret.clockB

\* the clocks of the events handed to sortEvents
SortClocks == [ LogUsers -> 0..ClockMax ]

\* event i has timestamp i: the timestamps are pairwise distinct
SortEventSets ==
    { [ i \in 1..NumEvents |-> [ id |-> i, vectorClock |-> c[i], timestamp |-> i ] ] :
      c \in [ 1..NumEvents -> SortClocks ] }

\* the same events in another order
Permuted(events, f) == [ i \in DOMAIN events |-> events[f[i]] ]

InitSort ==
    /\ ServerAtStart
    /\ now = 0
    /\ oplog = NewOperationLog(1, 0)
    /\ ret \in { [ call |-> "events", events |-> Permuted(e, f) ] :
                 e \in SortEventSets, f \in Permutations(1..NumEvents) }

\* VectorClock.sortEvents on the events, on its own output, and on every
\* other order of the same events
SortEvents ==
    /\ ret.call = "events"
    /\ LET sorted == sortEvents(ret.events)
       IN  ret' = [ call |-> "sortEvents",
                    events |-> ret.events,
                    sorted |-> sorted,
                    again |-> sortEvents(sorted),
                    others |-> { sortEvents(Permuted(ret.events, f)) :
                                 f \in Permutations(1..NumEvents) } ]
    /\ UNCHANGED << serverVars, now, ticks, oplog, nextOpId >>

NextSort == SortEvents

SpecSort == InitSort /\ [][NextSort]_vars

\* C15: sortEvents orders events by a total order: sorting its own output
\* gives the same sequence, and every order of the same events (their
\* timestamps pairwise distinct) is sorted to the same sequence.
SortEventsIsTotalOrder ==
    ret.call = "sortEvents"
    => /\ ret.again = ret.sorted
       /\ ret.others = { ret.sorted }

\* C16: a second merge of the same list leaves the log, its operations, their
\* order and states, and the log's clock as the first merge left them, and
\* reports no merged operation.
MergeTwiceSameAsOnce ==
    [][ \A ext \in ExternalLists :
            LogMergeOperations(ext)
            => LET second == mergeOperations(oplog', ext)
               IN  /\ second.log = oplog'
                   /\ second.result.merged = 0
      ]_vars

\* C17: no two operations of the log have the same id.
OperationIdsUnique ==
    \A i, k \in DOMAIN oplog.operations :
        i # k => oplog.operations[i].id # oplog.operations[k].id

(***************************************************************************)
(* Merges into one log that can hold OrderCapacity operations: the         *)
(* external operations have any clock of SortClocks, operation i has       *)
(* timestamp i.                                                            *)
(***************************************************************************)
OrderPool ==
    { [ id |-> i, type |-> "stroke", data |-> StrokeData, userId |-> 1,
        state |-> "active", vectorClock |-> c, timestamp |-> i, roomId |-> 1,
        undoneBy |-> 0, undoneAt |-> -1, redoneBy |-> 0, redoneAt |-> -1 ]
      : i \in 1..NumEvents, c \in SortClocks }

\* one operation, or two with different ids, in either order
OrderLists ==
    { << x >> : x \in OrderPool } \cup
    { << p[1], p[2] >> : p \in { q \in OrderPool \X OrderPool : q[1].id # q[2].id } }

InitOrder ==
    /\ ServerAtStart
    /\ now = 0
    /\ oplog = [ NewOperationLog(1, 0) EXCEPT !.maxOperations = OrderCapacity ]
    /\ ret = [ call |-> "new" ]

NextOrder == \E ext \in OrderLists : LogMergeOperations(ext)

SpecOrder == InitOrder /\ [][NextOrder]_vars

\* neither clock is before the other, and they are not the same clock
Concurrent(a, b) ==
    /\ compare(a, b) = 0
    /\ \E w \in DOMAIN a \cup DOMAIN b : ClockGet(a, w) # ClockGet(b, w)

\* C18: after a merge, of two operations of the log whose clocks are ordered
\* the earlier one stands first, and two operations with concurrent clocks
\* stand in the order of their timestamps.
MergedLogInCausalOrder ==
    [][ ret'.call = "mergeOperations"
        => \A i, k \in DOMAIN oplog'.operations :
              i < k
              => LET a == oplog'.operations[i]
                     b == oplog'.operations[k]
                 IN  /\ compare(a.vectorClock, b.vectorClock) # 1
                     /\ Concurrent(a.vectorClock, b.vectorClock)
                           => a.timestamp <= b.timestamp
      ]_vars

(***************************************************************************)
(* One log, created at a time after the epoch, that is exported and        *)
(* imported into a new log while the wall clock advances.                  *)
(***************************************************************************)
InitExport ==
    /\ ServerAtStart
    /\ now = GraceDelay
    /\ oplog = NewOperationLog(1, GraceDelay)
    /\ ret = [ call |-> "new" ]

\* new OperationLog(roomId).import(log.export()); ret keeps the new log
\* before and after the call
LogImport(roomId) ==
    /\ LET fresh == NewOperationLog(roomId, now)
           r == import(fresh, export(oplog, now), now)
       IN  ret' = [ call |-> "import", before |-> fresh, after |-> r.log,
                    threw |-> r.result.threw ]
    /\ UNCHANGED << serverVars, now, ticks, oplog, nextOpId >>

NextExport ==
    \/ LogAddOperation(1)
    \/ \E id \in GeneratedIds : LogUndoOperation(id, 1)
    \/ LogClearOperations(1)
    \/ Tick(GraceDelay)
    \/ \E roomId \in RoomIds : LogImport(roomId)

SpecExport == InitExport /\ [][NextExport]_vars

\* C19: the import of a log's export into a new log of the same roomId gives
\* a log with the same operations, in the same order and states, the same
\* vector clock and the same createdAt; an import of data of another roomId
\* raises an error and leaves the importing log as it was.
ImportOfExportRestoresLog ==
    ret.call = "import"
    => IF ret.before.roomId = oplog.roomId
       THEN /\ ~ret.threw
            /\ ret.after.operations = oplog.operations
            /\ ret.after.vectorClock = oplog.vectorClock
            /\ ret.after.createdAt = oplog.createdAt
            /\ ret.after.roomId = oplog.roomId
       ELSE /\ ret.threw
            /\ ret.after = ret.before

\* C19 witness: a log with an active and an undone operation has been
\* imported into a log that was created later
ImportedIntoLaterLog ==
    /\ ret.call = "import"
    /\ ~ret.threw
    /\ ret.before.createdAt > oplog.createdAt
    /\ ret.before.operations = << >>
    /\ Len(ret.after.operations) = 2
    /\ \E i, k \in DOMAIN ret.after.operations :
          /\ ret.after.operations[i].state = "undone"
          /\ ret.after.operations[k].state = "active"

(***************************************************************************)
(* The drawing handlers of the server.  An operationId that the message    *)
(* does not carry reads 0.                                                 *)
(***************************************************************************)
CanvasRoomIds == 1..CanvasRooms

\* roomManager.updateActivity(socket.id); roomManager.getRoom(user.roomId)
TouchRoom(s) == getRoom(updateActivity(Manager, s, now), users[s].roomId, now)

SetLog(m, roomId, log) == [ m EXCEPT !.rooms[roomId].operationLog = log ]

\* socket.on(EVENTS.DRAW_END), the message being { stroke, timestamp }
DrawEndOf(s, stroke) ==
    /\ s \in connected
    /\ IF s \notin DOMAIN users
       THEN /\ out' = << >>
            /\ UNCHANGED << rooms, users, timers, nextOpId >>
       ELSE LET user == users[s]
                m == TouchRoom(s)
                a == addOperation(m.rooms[user.roomId].operationLog, user.id,
                                  "stroke", stroke, nextOpId, now)
            IN  /\ SetManager(SetLog(m, user.roomId, a.log))
                /\ nextOpId' = nextOpId + 1
                /\ out' = << Emit(IoMembers(ioRooms, user.roomId) \ {s},
                                  "remote_draw_end",
                                  [ userId |-> user.id, stroke |-> stroke,
                                    operationId |-> a.result.id ]) >>
    /\ UNCHANGED << nextReap, now, ticks, nextUserId, nextSocketId, connected,
                    ioRooms, oplog, ret >>
    /\ inbox' = Deliver(inbox, out')
    /\ clients' = Served(clients, s, out')

\* draw_end with a stroke of no particular content
DrawEnd(s) == DrawEndOf(s, StrokeData)

\* mutant: remote_undo is emitted whether the undo succeeded or not
UndoBroadcastsAlways(s, dataOperationId) ==
    /\ s \in connected
    /\ IF s \notin DOMAIN users
       THEN /\ out' = << >>
            /\ UNCHANGED << rooms, users, timers >>
       ELSE LET user == users[s]
                m == TouchRoom(s)
                log == m.rooms[user.roomId].operationLog
                r == undoOperation(log, dataOperationId, user.id, now)
            IN  /\ SetManager(SetLog(m, user.roomId, r.log))
                /\ out' = << Emit(IoMembers(ioRooms, user.roomId), "remote_undo",
                                  [ userId |-> user.id,
                                    operationId |-> dataOperationId ]) >>
    /\ UNCHANGED << nextReap, now, ticks, nextUserId, nextSocketId, connected,
                    ioRooms >>
    /\ UNCHANGED logVars
    /\ inbox' = Deliver(inbox, out')
    /\ clients' = Served(clients, s, out')

\* socket.on(EVENTS.UNDO)
Undo(s, dataOperationId) ==
    /\ s \in connected
    /\ IF s \notin DOMAIN users
       THEN /\ out' = << >>
            /\ UNCHANGED << rooms, users, timers >>
       ELSE LET user == users[s]
                m == TouchRoom(s)
                log == m.rooms[user.roomId].operationLog
                lastOp == getLastActiveOperation(log)
                operationId == IF dataOperationId # 0 THEN dataOperationId
                               ELSE IF lastOp # 0 THEN log.operations[lastOp].id
                               ELSE 0
                r == undoOperation(log, operationId, user.id, now)
            IN  IF operationId = 0
                THEN /\ SetManager(m)
                     /\ out' = << >>
                ELSE /\ SetManager(SetLog(m, user.roomId, r.log))
                     /\ out' = IF r.result.success
                               THEN << Emit(IoMembers(ioRooms, user.roomId),
                                            "remote_undo",
                                            [ userId |-> user.id,
                                              operationId |-> operationId ]) >>
                               ELSE << >>
    /\ UNCHANGED << nextReap, now, ticks, nextUserId, nextSocketId, connected,
                    ioRooms >>
    /\ UNCHANGED logVars
    /\ inbox' = Deliver(inbox, out')
    /\ clients' = Served(clients, s, out')

\* socket.on(EVENTS.REDO)
Redo(s, dataOperationId) ==
    /\ s \in connected
    /\ IF s \notin DOMAIN users
       THEN /\ out' = << >>
            /\ UNCHANGED << rooms, users, timers >>
       ELSE LET user == users[s]
                m == TouchRoom(s)
                log == m.rooms[user.roomId].operationLog
                lastOp == getLastUndoneOperation(log)
                operationId == IF dataOperationId # 0 THEN dataOperationId
                               ELSE IF lastOp # 0 THEN log.operations[lastOp].id
                               ELSE 0
                r == redoOperation(log, operationId, user.id, now)
            IN  IF operationId = 0
                THEN /\ SetManager(m)
                     /\ out' = << >>
                ELSE /\ SetManager(SetLog(m, user.roomId, r.log))
                     /\ out' = IF r.result.success
                               THEN << Emit(IoMembers(ioRooms, user.roomId),
                                            "remote_redo",
                                            [ userId |-> user.id,
                                              operationId |-> operationId ]) >>
                               ELSE << >>
    /\ UNCHANGED << nextReap, now, ticks, nextUserId, nextSocketId, connected,
                    ioRooms >>
    /\ UNCHANGED logVars
    /\ inbox' = Deliver(inbox, out')
    /\ clients' = Served(clients, s, out')

\* socket.on(EVENTS.CLEAR_CANVAS)
ClearCanvas(s) ==
    /\ s \in connected
    /\ IF s \notin DOMAIN users
       THEN /\ out' = << >>
            /\ UNCHANGED << rooms, users, timers, nextOpId >>
       ELSE LET user == users[s]
                m == TouchRoom(s)
                c == clearOperations(m.rooms[user.roomId].operationLog, user.id,
                                     nextOpId, now)
            IN  /\ SetManager(SetLog(m, user.roomId, c.log))
                /\ nextOpId' = nextOpId + 1
                /\ out' = << Emit(IoMembers(ioRooms, user.roomId), "remote_clear",
                                  [ userId |-> user.id ]) >>
    /\ UNCHANGED << nextReap, now, ticks, nextUserId, nextSocketId, connected,
                    ioRooms, oplog, ret >>
    /\ inbox' = Deliver(inbox, out')
    /\ clients' = Served(clients, s, out')

NextCanvas ==
    \/ nextSocketId <= CanvasSockets /\ Connect
    \/ \E s \in connected, r \in CanvasRoomIds, hue \in Hues :
          nextUserId <= CanvasUsers /\ JoinRoom(s, r, hue)
    \/ \E s \in connected : Disconnect(s)
    \/ \E s \in connected : nextOpId <= CanvasOps /\ DrawEnd(s)
    \/ \E s \in connected, id \in 0..(nextOpId - 1) : Undo(s, id)
    \/ \E s \in connected, id \in 0..(nextOpId - 1) : Redo(s, id)
    \/ \E s \in connected : nextOpId <= CanvasOps /\ ClearCanvas(s)

SpecCanvas == Init /\ [][NextCanvas]_vars

(***************************************************************************)
(* Properties of the join_room handler.                                    *)
(***************************************************************************)
\* the connections of the sessions of a room, the closed ones left out
OpenSocketsOf(room) == { u.socketId : u \in Range(room.users) } \cap connected

\* C20: a successful join_room of connection s to room r emits, in this
\* order: the acknowledgement to s carrying success and the new userId;
\* user_joined about the new user to the open connections of the other
\* members of r and not to s; users_list to s with the roster of r, the new
\* user included; and then sync_state to s with every operation of the log
\* of r, undone ones included, in log order, exactly when that log is not
\* empty.
JoinEmitsAckRosterThenState ==
    [][ \A s \in connected :
          ( /\ nextUserId' = nextUserId + 1
            /\ s \in DOMAIN users'
            /\ users'[s].id = nextUserId )
          => LET room == rooms'[users'[s].roomId]
                 operations == room.operationLog.operations
                 roster == [ i \in DOMAIN room.users |->
                               [ id |-> room.users[i].id,
                                 color |-> room.users[i].color ] ]
             IN  /\ Len(out') = IF Len(operations) > 0 THEN 4 ELSE 3
                 /\ out'[1].event = "ack"
                 /\ out'[1].to = {s}
                 /\ out'[1].body.success
                 /\ out'[1].body.userId = nextUserId
                 /\ out'[2].event = "user_joined"
                 /\ OpenSocketsOf(room) \ {s} \subseteq out'[2].to
                 /\ s \notin out'[2].to
                 /\ out'[2].body.user.id = nextUserId
                 /\ out'[3] = Emit({s}, "users_list", [ users |-> roster ])
                 /\ \E i \in DOMAIN roster : roster[i].id = nextUserId
                 /\ Len(operations) > 0
                    => out'[4] = Emit({s}, "sync_state",
                                      [ operations |-> operations ])
      ]_vars

\* a join answered with the four emissions: another member is told, and the
\* state sent to the joiner holds an undone operation
JoinedRoomWithUndoneOperation ==
    /\ Len(out) = 4
    /\ out[1].event = "ack"
    /\ out[2].event = "user_joined"
    /\ out[2].to # {}
    /\ out[4].event = "sync_state"
    /\ \E i \in DOMAIN out[4].body.operations :
          IsUndone(out[4].body.operations[i])

(***************************************************************************)
(* The whole server: every socket handler and both timers of the           *)
(* RoomManager, with the wall clock advancing.                             *)
(***************************************************************************)
SrvRoomIds == 1..SrvRooms
\* the steps of the wall clock: the grace delay and the room timeout
SrvTickSteps == {GraceDelay, roomTimeout}

\* mutant: the batch is stored as a stroke of the log
DrawBatchMaterializes(s) == DrawEnd(s)

\* socket.on(EVENTS.DRAW_BATCH)
DrawBatch(s) ==
    /\ s \in connected
    /\ IF s \notin DOMAIN users
       THEN /\ out' = << >>
            /\ UNCHANGED << rooms, users, timers >>
       ELSE /\ SetManager(updateActivity(Manager, s, now))
            /\ out' = << Emit(IoMembers(ioRooms, users[s].roomId) \ {s},
                              "remote_draw_batch",
                              [ userId |-> users[s].id, points |-> StrokeData ]) >>
    /\ UNCHANGED << nextReap, now, ticks, nextUserId, nextSocketId, connected,
                    ioRooms >>
    /\ UNCHANGED logVars
    /\ inbox' = Deliver(inbox, out')
    /\ clients' = Served(clients, s, out')

\* socket.on(EVENTS.CURSOR_MOVE)
CursorMove(s) ==
    /\ s \in connected
    /\ out' = IF s \notin DOMAIN users
              THEN << >>
              ELSE << Emit(IoMembers(ioRooms, users[s].roomId) \ {s},
                           "remote_cursor", [ userId |-> users[s].id ]) >>
    /\ UNCHANGED << rooms, users, timers, nextReap, now, ticks, nextUserId,
                    nextSocketId, connected, ioRooms >>
    /\ UNCHANGED logVars
    /\ inbox' = Deliver(inbox, out')
    /\ clients' = Served(clients, s, out')

NextServer ==
    \/ nextSocketId <= SrvSockets /\ Connect
    \/ \E s \in connected, r \in SrvRoomIds, hue \in Hues :
          nextUserId <= SrvUsers /\ JoinRoom(s, r, hue)
    \/ \E s \in connected : Disconnect(s)
    \/ \E s \in connected : DrawStart(s)
    \/ \E s \in connected : DrawBatch(s)
    \/ \E s \in connected : nextOpId <= SrvOps /\ DrawEnd(s)
    \/ \E s \in connected, id \in 0..(nextOpId - 1) : Undo(s, id)
    \/ \E s \in connected, id \in 0..(nextOpId - 1) : Redo(s, id)
    \/ \E s \in connected : nextOpId <= SrvOps /\ ClearCanvas(s)
    \/ \E s \in connected : CursorMove(s)
    \/ \E tm \in timers : GraceCheck(tm)
    \/ Reaper
    \/ \E d \in SrvTickSteps : Tick(d)

SpecServer == Init /\ [][NextServer]_vars

(***************************************************************************)
(* Properties of the drawing handlers.                                     *)
(***************************************************************************)
RoomLogs(rs) == [ r \in DOMAIN rs |-> rs[r].operationLog ]

\* C21: draw_start, draw_batch and cursor_move leave the operation log and
\* the vector clock of every room as they were, and so does the disconnect
\* of a connection whose stroke never ended; the sync_state a joiner is sent
\* lists the operations of the log of a room and nothing else, so a stroke
\* that is not in the log is not in it.
InFlightStrokeLeavesNoTrace ==
    [][ /\ ( \E s \in connected :
                DrawStart(s) \/ DrawBatch(s) \/ CursorMove(s) \/ Disconnect(s) )
           => RoomLogs(rooms') = RoomLogs(rooms)
        /\ \A i \in DOMAIN out' :
              out'[i].event = "sync_state"
              => \E r \in DOMAIN rooms' :
                    out'[i].body.operations = rooms'[r].operationLog.operations
      ]_vars

\* a batch of points of a user who has no operation in the log of the room,
\* sent on to another member, while that log holds an operation
BatchOfUserWithoutOperation ==
    /\ Len(out) = 1
    /\ out[1].event = "remote_draw_batch"
    /\ "points" \in DOMAIN out[1].body
    /\ out[1].to # {}
    /\ \E r \in DOMAIN rooms :
          /\ \E u \in Range(rooms[r].users) : u.id = out[1].body.userId
          /\ rooms[r].operationLog.operations # << >>
          /\ \A op \in Range(rooms[r].operationLog.operations) :
                op.userId # out[1].body.userId

\* the operations of the log of room r, none when there is no such room
OperationsOf(rs, r) ==
    IF r \in DOMAIN rs THEN rs[r].operationLog.operations ELSE << >>

\* after is before with one operation appended, the oldest ones dropped when
\* the log was full
AppendedOne(before, after) ==
    /\ Len(after) >= 1
    /\ \E k \in 0..Len(before) :
          /\ SubSeq(after, 1, Len(after) - 1) = SubSeq(before, k + 1, Len(before))
          /\ k > 0 => Len(after) = maxOperations

\* C22: a draw_end of a connection with a session appends one active stroke
\* operation of the session's user to the log of the room the session is a
\* member of, and emits remote_draw_end with the id of that operation to the
\* open connections of the other members of that room and not to the sender.
DrawEndAppendsToMembersRoom ==
    [][ \A s \in connected :
          ( s \in DOMAIN users /\ DrawEnd(s) )
          => LET user == users[s]
                 r == user.roomId
                 after == OperationsOf(rooms', r)
                 op == after[Len(after)]
             IN  /\ r \in DOMAIN rooms
                 /\ user \in Range(rooms[r].users)
                 /\ user \in Range(rooms'[r].users)
                 /\ AppendedOne(OperationsOf(rooms, r), after)
                 /\ op.state = "active"
                 /\ op.type = "stroke"
                 /\ op.userId = user.id
                 /\ \A q \in (DOMAIN rooms) \ {r} :
                       OperationsOf(rooms', q) = OperationsOf(rooms, q)
                 /\ Len(out') = 1
                 /\ out'[1].event = "remote_draw_end"
                 /\ out'[1].body.operationId = op.id
                 /\ s \notin out'[1].to
                 /\ OpenSocketsOf(rooms'[r]) \ {s} \subseteq out'[1].to
      ]_vars

\* the positions of the operations that a step took from state from to state to
Flipped(before, after, from, to) ==
    { i \in DOMAIN before : before[i].state = from /\ after[i].state = to }

\* what a handler emits on a successful undo or redo of the operation at
\* position i: one event, to the sender and the open connections of the
\* members, naming the user and the operation
BroadcastOf(s, r, event, before, after, from, to) ==
    /\ Len(out') = 1
    /\ out'[1].event = event
    /\ s \in out'[1].to
    /\ OpenSocketsOf(rooms'[r]) \subseteq out'[1].to
    /\ out'[1].body.userId = users[s].id
    /\ \E i \in DOMAIN before :
          /\ Flipped(before, after, from, to) = {i}
          /\ out'[1].body.operationId = before[i].id
          /\ \A k \in (DOMAIN before) \ {i} : after[k] = before[k]

\* C23: an undo (redo) message of a connection with a session is followed by
\* remote_undo (remote_redo), to the sender and the other members, exactly
\* when the undo (redo) of the log succeeded on the operation the message
\* resolves to; otherwise nothing is emitted, no error goes to the client,
\* and every operation of every log is as it was.
UndoRedoBroadcastIffSucceeded ==
    [][ \A s \in connected : \A id \in 0..(nextOpId - 1) :
          LET r == users[s].roomId
              before == OperationsOf(rooms, r)
              after == OperationsOf(rooms', r)
              log == TouchRoom(s).rooms[r].operationLog
              lastActive == getLastActiveOperation(log)
              lastUndone == getLastUndoneOperation(log)
              undoId == IF id # 0 THEN id
                        ELSE IF lastActive # 0 THEN before[lastActive].id ELSE 0
              redoId == IF id # 0 THEN id
                        ELSE IF lastUndone # 0 THEN before[lastUndone].id ELSE 0
              undone == undoId # 0 /\ undoOperation(log, undoId, users[s].id, now).result.success
              redone == redoId # 0 /\ redoOperation(log, redoId, users[s].id, now).result.success
              Silent == /\ out' = << >>
                        /\ Len(after) = Len(before)
                        /\ \A q \in DOMAIN rooms :
                              OperationsOf(rooms', q) = OperationsOf(rooms, q)
          IN  /\ ( s \in DOMAIN users /\ Undo(s, id) )
                 => /\ undone => BroadcastOf(s, r, "remote_undo", before, after,
                                             "active", "undone")
                    /\ ~undone => Silent
              /\ ( s \in DOMAIN users /\ Redo(s, id) )
                 => /\ redone => BroadcastOf(s, r, "remote_redo", before, after,
                                             "undone", "active")
                    /\ ~redone => Silent
      ]_vars

\* a remote_undo that reached its sender and another connection
UndoBroadcastToSenderAndOther ==
    /\ Len(out) = 1
    /\ out[1].event = "remote_undo"
    /\ Cardinality(out[1].to) >= 2
    /\ \E s \in out[1].to :
          s \in DOMAIN users /\ users[s].id = out[1].body.userId

\* position i holds the operation in state st that is nearest to the end
LastInState(ops, i, st) ==
    /\ i \in DOMAIN ops
    /\ ops[i].state = st
    /\ \A k \in DOMAIN ops : k > i => ops[k].state # st

\* C24: an undo message without an operation id undoes the active operation
\* nearest to the end of the room's log, whoever authored it, and remote_undo
\* names that operation and reaches the sender and the other members; with
\* no active operation nothing changes and nothing is emitted.
IdlessUndoTakesLastActive ==
    [][ \A s \in connected :
          ( s \in DOMAIN users /\ Undo(s, 0) )
          => LET r == users[s].roomId
                 before == OperationsOf(rooms, r)
                 after == OperationsOf(rooms', r)
             IN  /\ \A i \in DOMAIN before :
                       LastInState(before, i, "active")
                       => /\ after = [ before EXCEPT ![i] = after[i] ]
                          /\ after[i].state = "undone"
                          /\ after[i].undoneBy = users[s].id
                          /\ Len(out') = 1
                          /\ out'[1].event = "remote_undo"
                          /\ out'[1].body.operationId = before[i].id
                          /\ s \in out'[1].to
                          /\ OpenSocketsOf(rooms'[r]) \subseteq out'[1].to
                 /\ ( \A i \in DOMAIN before : before[i].state # "active" )
                    => after = before /\ out' = << >>
      ]_vars

\* op1 by A, op2 by B; A has undone op2 and then op1 without naming them:
\* no operation is active, and the last remote_undo names op1 and reached
\* both connections
BothUndoneByFirstAuthor ==
    /\ Len(out) = 1
    /\ out[1].event = "remote_undo"
    /\ Cardinality(out[1].to) = 2
    /\ \E r \in DOMAIN rooms :
          LET ops == rooms[r].operationLog.operations
          IN  /\ Len(ops) = 2
              /\ ops[1].type = "stroke" /\ ops[2].type = "stroke"
              /\ ops[1].userId # ops[2].userId
              /\ ops[1].state = "undone" /\ ops[2].state = "undone"
              /\ ops[1].undoneBy = ops[1].userId
              /\ ops[2].undoneBy = ops[1].userId
              /\ out[1].body.operationId = ops[1].id
              /\ out[1].body.userId = ops[1].userId

(***************************************************************************)
(* Undo and redo without an operation id, in a room whose log keeps        *)
(* OrderCapacity operations.  The room exists at the start, empty, as      *)
(* getRoom creates it.                                                     *)
(***************************************************************************)
InitRedo ==
    /\ rooms = MapPut(EmptyMap, 1,
                      [ createRoom([ rooms |-> EmptyMap, users |-> EmptyMap,
                                     timers |-> {} ], 1, 0).rooms[1]
                          EXCEPT !.operationLog.maxOperations = OrderCapacity ])
    /\ users = EmptyMap
    /\ timers = {}
    /\ nextReap = ReaperInterval
    /\ now = 0
    /\ ticks = 0
    /\ nextUserId = 1
    /\ nextSocketId = 1
    /\ connected = {}
    /\ ioRooms = EmptyMap
    /\ out = << >>
    /\ inbox = NoInbox
    /\ clients = NoClients
    /\ oplog = NewOperationLog(1, 0)
    /\ ret = [ call |-> "new" ]
    /\ nextOpId = 1

NextRedo ==
    \/ nextSocketId <= CanvasSockets /\ Connect
    \/ \E s \in connected, hue \in Hues :
          nextUserId <= CanvasUsers /\ JoinRoom(s, 1, hue)
    \/ \E s \in connected : nextOpId <= RedoOps /\ DrawEnd(s)
    \/ \E s \in connected : Undo(s, 0)
    \/ \E s \in connected : Redo(s, 0)
    \/ \E s \in connected : nextOpId <= RedoOps /\ ClearCanvas(s)

SpecRedo == InitRedo /\ [][NextRedo]_vars

\* C25: a redo message without an operation id redoes the undone operation
\* nearest to the end of the room's log, whoever undid it, and remote_redo
\* names that operation and reaches the sender and the other members; with
\* no undone operation nothing changes and nothing is emitted.
IdlessRedoTakesLastUndone ==
    [][ \A s \in connected :
          ( s \in DOMAIN users /\ Redo(s, 0) )
          => LET r == users[s].roomId
                 before == OperationsOf(rooms, r)
                 after == OperationsOf(rooms', r)
             IN  /\ \A i \in DOMAIN before :
                       LastInState(before, i, "undone")
                       => /\ after = [ before EXCEPT ![i] = after[i] ]
                          /\ after[i].state = "active"
                          /\ after[i].redoneBy = users[s].id
                          /\ Len(out') = 1
                          /\ out'[1].event = "remote_redo"
                          /\ out'[1].body.operationId = before[i].id
                          /\ s \in out'[1].to
                          /\ OpenSocketsOf(rooms'[r]) \subseteq out'[1].to
                 /\ ( \A i \in DOMAIN before : before[i].state # "undone" )
                    => after = before /\ out' = << >>
      ]_vars

\* op1 and op2 were undone by the clear op3; a redo that named no operation
\* has made op2 active again, op1 is still undone, and remote_redo names op2
\* and reached both connections
SecondStrokeRedoneAfterClear ==
    /\ Len(out) = 1
    /\ out[1].event = "remote_redo"
    /\ Cardinality(out[1].to) = 2
    /\ \E r \in DOMAIN rooms :
          LET ops == rooms[r].operationLog.operations
          IN  /\ Len(ops) = 3
              /\ ops[1].type = "stroke" /\ ops[2].type = "stroke"
              /\ ops[3].type = "clear"
              /\ ops[1].state = "undone"
              /\ ops[2].state = "active"
              /\ ops[3].state = "active"
              /\ ops[1].undoneBy = ops[3].userId
              /\ ops[2].undoneBy = ops[3].userId
              /\ ops[2].redoneBy # 0
              /\ out[1].body.operationId = ops[2].id

(***************************************************************************)
(* What the connections of a room receive.  The handlers run one at a      *)
(* time, each to its end, and socket.io hands a connection its events in   *)
(* the order of the emit calls.                                            *)
(***************************************************************************)
InitWire ==
    /\ rooms = EmptyMap
    /\ users = EmptyMap
    /\ timers = {}
    /\ nextReap = ReaperInterval
    /\ now = 0
    /\ ticks = 0
    /\ nextUserId = 1
    /\ nextSocketId = 1
    /\ connected = {}
    /\ ioRooms = EmptyMap
    /\ out = << >>
    /\ oplog = NewOperationLog(1, 0)
    /\ ret = [ call |-> "new" ]
    /\ nextOpId = 1
    /\ inbox = [ next |-> 1, at |-> EmptyMap, kinds |-> Authoritative ]
    /\ clients = NoClients

NextWire ==
    \/ nextSocketId <= CanvasSockets /\ Connect
    \/ \E s \in connected, r \in CanvasRoomIds, hue \in Hues :
          /\ nextUserId <= CanvasUsers
          /\ inbox.next <= WireEvents
          /\ JoinRoom(s, r, hue)
    \/ \E s \in connected : inbox.next <= WireEvents /\ Disconnect(s)
    \/ \E s \in connected :
          nextOpId <= CanvasOps /\ inbox.next <= WireEvents /\ DrawEnd(s)
    \/ \E s \in connected : inbox.next <= WireEvents /\ Undo(s, 0)
    \/ \E s \in connected : inbox.next <= WireEvents /\ Redo(s, 0)
    \/ \E s \in connected :
          nextOpId <= CanvasOps /\ inbox.next <= WireEvents /\ ClearCanvas(s)

SpecWire == InitWire /\ [][NextWire]_vars

IsMember(s) ==
    /\ s \in DOMAIN users
    /\ users[s].roomId \in DOMAIN rooms
    /\ users[s] \in Range(rooms[users[s].roomId].users)

\* a message of connection s that one of the handlers of member events takes
MemberEvent(s) ==
    \/ DrawStart(s)
    \/ DrawBatch(s)
    \/ DrawEnd(s)
    \/ \E id \in 0..(nextOpId - 1) : Undo(s, id) \/ Redo(s, id)
    \/ ClearCanvas(s)
    \/ CursorMove(s)

\* C27: every event that a member of a room originates (draw_start,
\* draw_batch, draw_end, undo, redo, clear_canvas, cursor_move) sets the
\* lastActivity of that room to the time of the event.
MemberEventBumpsActivity ==
    [][ \A s \in connected :
          ( IsMember(s) /\ MemberEvent(s) )
          => /\ users[s].roomId \in DOMAIN rooms'
             /\ rooms'[users[s].roomId].lastActivity = now
      ]_vars

\* C28: the check that leaveRoom schedules when a room becomes empty is due
\* GraceDelay later; when it fires it deletes that room and nothing else, and
\* only if the room has no member and its lastActivity is more than GraceAge
\* old.  A join to an existing room keeps the room, its id and its operation
\* log, and a check that fires while the room has a member deletes nothing.
GraceCheckSparesRejoinedRoom ==
    [][ /\ \A tm \in timers' \ timers :
              /\ tm.fireAt = now + GraceDelay
              /\ tm.roomId \in DOMAIN rooms'
              /\ rooms'[tm.roomId].users = << >>
        /\ \A tm \in timers :
              GraceCheck(tm)
              => IF /\ tm.roomId \in DOMAIN rooms
                    /\ rooms[tm.roomId].users = << >>
                    /\ now - rooms[tm.roomId].lastActivity > GraceAge
                 THEN rooms' = MapRemove(rooms, tm.roomId)
                 ELSE rooms' = rooms
        /\ \A s \in connected, r \in DOMAIN rooms :
              ( nextUserId' = nextUserId + 1 /\ s \in DOMAIN users'
                /\ users'[s].id = nextUserId /\ users'[s].roomId = r )
              => /\ DOMAIN rooms' = DOMAIN rooms
                 /\ rooms'[r].id = rooms[r].id
                 /\ rooms'[r].operationLog = rooms[r].operationLog
      ]_vars

\* the check of a room is due; since it was scheduled a connection has
\* joined the room, whose log still holds the stroke of a user who left
DueCheckOfRejoinedRoom ==
    \E tm \in timers :
       /\ now >= tm.fireAt
       /\ tm.roomId \in DOMAIN rooms
       /\ rooms[tm.roomId].users # << >>
       /\ \E op \in Range(rooms[tm.roomId].operationLog.operations) :
             \A u \in Range(rooms[tm.roomId].users) : u.id # op.userId

\* C30: once the reaper has deleted the room of a session, a broadcast of the
\* RoomManager to that room id emits nothing, and an event of the session
\* changes neither the rooms map nor any log.
StragglerIsSilentNoOp ==
    [][ \A s \in connected :
          ( /\ s \in DOMAIN users
            /\ users[s].roomId \notin DOMAIN rooms
            /\ MemberEvent(s) )
          => /\ broadcastToRoom(Manager, users[s].roomId, "remote_cursor",
                                [ userId |-> users[s].id ], s) = << >>
             /\ broadcastToAll(Manager, users[s].roomId, "remote_clear",
                               [ userId |-> users[s].id ]) = << >>
             /\ rooms' = rooms
      ]_vars

(***************************************************************************)
(* Rooms over unbounded time.  The RoomManager uses a stored time only in  *)
(* a difference Date.now() - t that it compares with a delay, the largest  *)
(* being roomTimeout.  So the clock is kept at LiveBase and the passing of *)
(* d is the move of every stored time d into the past, no further than     *)
(* LiveBase: an age that has reached roomTimeout + 1 stays there.          *)
(***************************************************************************)
LiveBase == roomTimeout + 1

\* a stored time t after d has passed; floor is the time from which on every
\* comparison the code makes with t has the same outcome
Past(t, d, floor) == Max(t - d, floor)

\* the steps of the wall clock: the reaper's interval and the room timeout
LiveSteps == {ReaperInterval, roomTimeout}

InitLive ==
    /\ rooms = EmptyMap
    /\ users = EmptyMap
    /\ timers = {}
    /\ nextReap = LiveBase + ReaperInterval
    /\ now = LiveBase
    /\ ticks = 0
    /\ nextUserId = 1
    /\ nextSocketId = 1
    /\ connected = {}
    /\ ioRooms = EmptyMap
    /\ out = << >>
    /\ inbox = NoInbox
    /\ clients = NoClients
    /\ oplog = NewOperationLog(1, 0)
    /\ ret = [ call |-> "new" ]
    /\ nextOpId = 1

\* the wall clock advances by d
Elapse(d) ==
    /\ rooms' = [ r \in DOMAIN rooms |->
                    [ rooms[r] EXCEPT !.lastActivity = Past(@, d, 0),
                                      !.operationLog.createdAt = Past(@, d, 0) ] ]
    /\ timers' = { [ tm EXCEPT !.fireAt = Past(@, d, now) ] : tm \in timers }
    /\ nextReap' = Past(nextReap, d, now)
    /\ UNCHANGED << users, now, ticks, nextUserId, nextSocketId, connected,
                    ioRooms, out, inbox, clients >>
    /\ UNCHANGED logVars

NextLive ==
    \/ nextSocketId <= LiveSockets /\ Connect
    \/ \E s \in connected, hue \in Hues :
          nextUserId <= LiveUsers /\ JoinRoom(s, 1, hue)
    \/ \E s \in connected : Disconnect(s)
    \/ \E s \in connected : DrawStart(s)
    \/ \E s \in connected : Undo(s, 0)
    \/ \E tm \in timers : GraceCheck(tm)
    \/ Reaper
    \/ \E d \in LiveSteps : Elapse(d)

\* the timers keep firing: time passes, and a callback that is due runs
SpecLive ==
    /\ InitLive
    /\ [][NextLive]_vars
    /\ WF_vars(\E d \in LiveSteps : Elapse(d))
    /\ WF_vars(\E tm \in timers : GraceCheck(tm))
    /\ WF_vars(Reaper)

\* room 1 has just become empty: it has no member, the check that leaveRoom
\* scheduled is not due yet, and the room is older than that check
EmptiedRoom ==
    /\ 1 \in DOMAIN rooms
    /\ rooms[1].users = << >>
    /\ rooms[1].operationLog.createdAt < now
    /\ \E tm \in timers : tm.roomId = 1 /\ tm.fireAt > now

\* C29: a room that has become empty is in the end deleted from the rooms
\* map, unless a connection joins it again.
EmptiedRoomEventuallyDeleted ==
    EmptiedRoom ~> ( 1 \notin DOMAIN rooms \/ rooms[1].users # << >> )

\* C31: a room comes into existence only by join_room: no draw, undo, redo,
\* clear, cursor or disconnect event ever adds a room to the rooms map.
OnlyJoinAddsRoom ==
    [][ \A s \in connected :
          ( MemberEvent(s) \/ Disconnect(s) )
          => DOMAIN rooms' \subseteq DOMAIN rooms
      ]_vars

\* C32: a join_room reattempted on a connection that already holds a session
\* is answered through the ack with an admission error, creates no second
\* session and changes no room's membership; the connection stays open with
\* its first session.
ReattemptedJoinIsRefused ==
    [][ \A s \in connected :
          ( /\ s \in DOMAIN users
            /\ \E r \in CanvasRoomIds, hue \in Hues : JoinRoom(s, r, hue) )
          => /\ Len(out') = 1
             /\ out'[1].event = "ack"
             /\ out'[1].to = {s}
             /\ ~out'[1].body.success
             /\ users' = users
             /\ nextUserId' = nextUserId
             /\ DOMAIN rooms' = DOMAIN rooms
             /\ \A r \in DOMAIN rooms : rooms'[r].users = rooms[r].users
             /\ connected' = connected
      ]_vars

\* the events of the emissions ems that reach connection c, in order
EventsTo(ems, c) ==
    LET reaching == SelectSeq(ems, LAMBDA e : c \in e.to)
    IN  [ i \in DOMAIN reaching |-> reaching[i].event ]

\* C33: when a connection that holds a session disconnects, the server
\* removes the session and then emits user_left followed by a users_list
\* with the updated roster (without the departed user) to every remaining
\* member of its room; the departed connection receives neither, and a
\* disconnect of a connection without a session emits nothing.
DisconnectNotifiesRemainingMembers ==
    [][ \A s \in connected :
          Disconnect(s)
          => IF s \in DOMAIN users
             THEN /\ s \notin DOMAIN users'
                  /\ EventsTo(out', s) = << >>
                  /\ \A c \in (connected \cap DOMAIN users) \ {s} :
                        users[c].roomId = users[s].roomId
                        => /\ EventsTo(out', c) = << "user_left", "users_list" >>
                           /\ out'[1].body.user.id = users[s].id
                           /\ \A u \in Range(out'[2].body.users) :
                                 u.id # users[s].id
                           /\ \E u \in Range(out'[2].body.users) :
                                 u.id = users[c].id
             ELSE out' = << >>
      ]_vars

\* C38: rooms are independent: an event handled for a session of room r
\* changes the log, clock, membership and lastActivity of no other room, and
\* a connection receives only broadcasts of the room that its current
\* session belongs to, after any sequence of join_room messages.
RoomsAreIndependent ==
    [][ \A s \in connected :
          ( s \in DOMAIN users /\ ( DrawStart(s) \/ Disconnect(s) ) )
          => /\ \A r \in DOMAIN rooms \ { users[s].roomId } :
                   r \in DOMAIN rooms' /\ rooms'[r] = rooms[r]
             /\ \A i \in DOMAIN out' : \A c \in out'[i].to :
                   c \in DOMAIN users /\ users[c].roomId = users[s].roomId
      ]_vars

\* C40: a room that has at least one member and whose lastActivity is less
\* than one hour old is never deleted, neither by the grace check nor by the
\* reaper: it stays in the rooms map, and a firing timer leaves it, and so
\* its operation log, as it was.
ActiveOccupiedRoomSurvives ==
    [][ \A r \in DOMAIN rooms :
          ( rooms[r].users # << >> /\ now - rooms[r].lastActivity < roomTimeout )
          => /\ r \in DOMAIN rooms'
             /\ ( Reaper \/ \E tm \in timers : GraceCheck(tm) )
                => rooms'[r] = rooms[r]
      ]_vars

\* the reaper has just run over a room with a member that has been idle for
\* longer than an empty room may be, and less than an hour
ReaperPassedIdleOccupiedRoom ==
    /\ nextReap = now + ReaperInterval
    /\ \E r \in DOMAIN rooms :
          /\ rooms[r].users # << >>
          /\ now - rooms[r].lastActivity > EmptyRoomAge
          /\ now - rooms[r].lastActivity < roomTimeout

(***************************************************************************)
(* What each connection has been sent of the strokes of its room: the      *)
(* server with a record of every remote_draw_end and sync_state emitted.   *)
(***************************************************************************)
SyncSockets == 2
SyncUsers == 3
SyncOps == 3

SyncKinds == { "remote_draw_end", "sync_state" }

InitSync ==
    /\ rooms = EmptyMap
    /\ users = EmptyMap
    /\ timers = {}
    /\ nextReap = ReaperInterval
    /\ now = 0
    /\ ticks = 0
    /\ nextUserId = 1
    /\ nextSocketId = 1
    /\ connected = {}
    /\ ioRooms = EmptyMap
    /\ out = << >>
    /\ oplog = NewOperationLog(1, 0)
    /\ ret = [ call |-> "new" ]
    /\ nextOpId = 1
    /\ inbox = [ next |-> 1, at |-> EmptyMap, kinds |-> SyncKinds ]
    /\ clients = NoClients

NextSync ==
    \/ nextSocketId <= SyncSockets /\ Connect
    \/ \E s \in connected, hue \in Hues :
          nextUserId <= SyncUsers /\ JoinRoom(s, 1, hue)
    \/ \E s \in connected : Disconnect(s)
    \/ \E s \in connected : nextOpId <= SyncOps /\ DrawEnd(s)

SpecSync == InitSync /\ [][NextSync]_vars

\* the recorded event e carries the operation with this id
Carries(e, id) ==
    \/ e.event = "remote_draw_end" /\ e.body.operationId = id
    \/ e.event = "sync_state" /\ \E op \in Range(e.body.operations) : op.id = id

\* what connection c has been sent of the operation with this id, in order
DeliveriesOf(box, c, id) ==
    IF c \in DOMAIN box.at
    THEN SelectSeq(box.at[c], LAMBDA e : Carries(e, id))
    ELSE << >>

\* the connections with a session of room r
SessionsOf(us, r) == { c \in connected \cap DOMAIN us : us[c].roomId = r }

\* connection c sent the draw_end of op: op carries the id of a user record
\* of c in the roster of the room
AuthoredBy(room, op, c) ==
    \E u \in Range(room.users) : u.id = op.userId /\ u.socketId = c

\* C39: for every stroke appended to a room's log by draw_end and every
\* connection other than the author that is a member of the room: a
\* connection that joined before the append receives exactly one
\* remote_draw_end for it and no sync_state containing it, and a connection
\* that joined after the append (and before the operation was trimmed)
\* receives it exactly once in its sync_state and no remote_draw_end for it.
StrokeReachesPeerOnce ==
    [][ /\ \A s \in connected :
              ( s \in DOMAIN users /\ DrawEnd(s) )
              => \A c \in SessionsOf(users, users[s].roomId) \ {s} :
                    LET got == DeliveriesOf(inbox', c, nextOpId)
                    IN  Len(got) = 1 /\ got[1].event = "remote_draw_end"
        /\ \A c \in connected :
              ( c \notin DOMAIN users /\ c \in DOMAIN users' )
              => \A op \in Range(rooms'[users'[c].roomId].operationLog.operations) :
                    LET got == DeliveriesOf(inbox', c, op.id)
                    IN  Len(got) = 1 /\ got[1].event = "sync_state"
        /\ \A r \in DOMAIN rooms' : \A c \in SessionsOf(users', r) :
              \A op \in Range(rooms'[r].operationLog.operations) :
                 ~AuthoredBy(rooms'[r], op, c)
                 => Len(DeliveriesOf(inbox', c, op.id)) = 1
      ]_vars

(***************************************************************************)
(* The browser client: the StateManager of UIController.js behind the      *)
(* handlers of CollaborativeCanvas.  A StateManager is [userId,            *)
(* operations, currentIndex, vectorClock]; currentIndex is the index into  *)
(* the JavaScript array (the first operation is at 0, an empty history has *)
(* -1).  An operation is [id, type, data, state, userId, timestamp,        *)
(* vectorClock, undoneBy, redoneBy], the last two reading 0 while unset.   *)
(* generateOperationId is userId_timestamp_random in the client as in the  *)
(* server: the model keeps the random part, and nextOpId hands the numbers *)
(* to clients and server alike, so that no two generated ids are equal.    *)
(* Each method is [sm |-> the StateManager after the call, result |-> the  *)
(* operation it returns, NoOperation for null].                            *)
(***************************************************************************)
maxHistorySize == 500

NoOperation == [ id |-> 0 ]

NewStateManager(userId) ==
    [ userId |-> userId, operations |-> << >>, currentIndex |-> -1,
      vectorClock |-> MapPut(EmptyMap, userId, 0) ]

trimHistory(sm) ==
    IF Len(sm.operations) > maxHistorySize
    THEN LET toRemove == Len(sm.operations) - maxHistorySize
         IN  [ sm EXCEPT
                 !.operations = SubSeq(@, toRemove + 1, Len(@)),
                 !.currentIndex = Max(0, @ - toRemove) ]
    ELSE sm

\* StateManager.addOperation(type, data, userId = this.userId)
clientAddOperation(sm, type, data, userId, id, t) ==
    LET vectorClock == MapPut(sm.vectorClock, userId,
                              ClockGet(sm.vectorClock, userId) + 1)
        operation == [ id |-> id, type |-> type, data |-> data,
                       state |-> "active", userId |-> userId,
                       timestamp |-> t, vectorClock |-> vectorClock,
                       undoneBy |-> 0, redoneBy |-> 0 ]
        kept == IF sm.currentIndex < Len(sm.operations) - 1
                THEN SubSeq(sm.operations, 1, sm.currentIndex + 1)
                ELSE sm.operations
    IN  [ sm |-> trimHistory([ sm EXCEPT
                                 !.vectorClock = vectorClock,
                                 !.operations = Append(kept, operation),
                                 !.currentIndex = @ + 1 ]),
          result |-> operation ]

\* StateManager.undoOperation(): the last active operation at or below
\* currentIndex, whoever its author
clientUndoOperation(sm) ==
    LET found == { i \in 0..sm.currentIndex :
                     sm.operations[i + 1].state = "active" }
    IN  IF found = {}
        THEN [ sm |-> sm, result |-> NoOperation ]
        ELSE LET i == CHOOSE k \in found : \A j \in found : j <= k
                 operation == [ sm.operations[i + 1] EXCEPT
                                  !.state = "undone", !.undoneBy = sm.userId ]
             IN  [ sm |-> [ sm EXCEPT !.operations[i + 1] = operation,
                                      !.currentIndex = i - 1 ],
                   result |-> operation ]

\* StateManager.redoOperation(): the first undone operation above currentIndex
clientRedoOperation(sm) ==
    LET found == { i \in (sm.currentIndex + 1)..(Len(sm.operations) - 1) :
                     sm.operations[i + 1].state = "undone" }
    IN  IF found = {}
        THEN [ sm |-> sm, result |-> NoOperation ]
        ELSE LET i == CHOOSE k \in found : \A j \in found : k <= j
                 operation == [ sm.operations[i + 1] EXCEPT
                                  !.state = "active", !.redoneBy = sm.userId ]
             IN  [ sm |-> [ sm EXCEPT !.operations[i + 1] = operation,
                                      !.currentIndex = i ],
                   result |-> operation ]

\* Array.prototype.find on the history: the place of the first operation
\* with this id, 0 if there is none
FindLocal(sm, operationId) ==
    LET hits == { i \in DOMAIN sm.operations : sm.operations[i].id = operationId }
    IN  IF hits = {} THEN 0 ELSE CHOOSE i \in hits : \A k \in hits : i <= k

processRemoteUndo(sm, operationId, userId) ==
    LET i == FindLocal(sm, operationId)
    IN  IF i # 0 /\ sm.operations[i].state = "active"
        THEN [ sm EXCEPT !.operations[i].state = "undone",
                         !.operations[i].undoneBy = userId ]
        ELSE sm

processRemoteRedo(sm, operationId, userId) ==
    LET i == FindLocal(sm, operationId)
    IN  IF i # 0 /\ sm.operations[i].state = "undone"
        THEN [ sm EXCEPT !.operations[i].state = "active",
                         !.operations[i].redoneBy = userId ]
        ELSE sm

clearHistory(sm, id, t) ==
    clientAddOperation(sm, "clear", [ timestamp |-> t ], sm.userId, id, t)

(***************************************************************************)
(* Clients and server together, from the moment ClientSockets browser      *)
(* clients have joined the empty room 1: each has got its ack and its      *)
(* users_list (waitForRoomJoin has initialized its StateManager with the   *)
(* user id of the ack), and no sync_state, the log being empty.  A client  *)
(* is [stateManager, outbox, pending].  The clients draw and clear         *)
(* ClientStrokes times in all, and the log of the room keeps that many     *)
(* operations.                                                             *)
(***************************************************************************)
ClientSockets == 2
ClientStrokes == 2
MaxOutbox == 1

ClientSocketIds == 1..ClientSockets

RECURSIVE JoinedAll(_)
\* the RoomManager after the connections 1..n have joined room 1
JoinedAll(n) ==
    IF n = 0
    THEN LET m == createRoom([ rooms |-> EmptyMap, users |-> EmptyMap,
                               timers |-> {} ], 1, 0)
         IN  [ m EXCEPT !.rooms[1].operationLog.maxOperations = ClientStrokes ]
    ELSE joinRoom(JoinedAll(n - 1), n, 1, n, 0, 0).m

InitClient ==
    /\ rooms = JoinedAll(ClientSockets).rooms
    /\ users = JoinedAll(ClientSockets).users
    /\ timers = {}
    /\ nextReap = ReaperInterval
    /\ now = 0
    /\ ticks = 0
    /\ nextUserId = ClientSockets + 1
    /\ nextSocketId = ClientSockets + 1
    /\ connected = ClientSocketIds
    /\ ioRooms = [ c \in ClientSocketIds |-> {1} ]
    /\ out = << >>
    /\ inbox = NoInbox
    /\ clients = [ c \in ClientSocketIds |->
                     [ stateManager |-> NewStateManager(c),
                       outbox |-> << >>, pending |-> << >> ] ]
    /\ oplog = NewOperationLog(1, 0)
    /\ ret = [ call |-> "new" ]
    /\ nextOpId = 1

\* what a step of a client leaves alone
serverSide == << rooms, users, timers, nextReap, now, ticks, nextUserId,
                 nextSocketId, connected, ioRooms, out, inbox, oplog, ret >>

\* the strokes and clears the clients have sent so far: those of the log
\* of room 1 and those on their way to the server
RECURSIVE OnTheirWay(_)
OnTheirWay(cs) ==
    IF cs = {} THEN 0
    ELSE LET c == CHOOSE x \in cs : TRUE
         IN  Len(SelectSeq(clients[c].outbox,
                           LAMBDA msg : msg.event \in { "draw_end", "clear_canvas" }))
             + OnTheirWay(cs \ {c})

Issued == Len(rooms[1].operationLog.operations) + OnTheirWay(DOMAIN clients)

\* the client's StateManager becomes sm and the messages go to its socket
\* (the user waits while MaxOutbox messages are on their way)
Does(c, sm, messages) ==
    /\ Len(clients[c].outbox) < MaxOutbox
    /\ clients' = [ clients EXCEPT ![c].stateManager = sm,
                                   ![c].outbox = @ \o messages ]

\* CollaborativeCanvas.handleDrawEnd: the stroke goes into the history and
\* then, with the id of its operation, to the server
handleDrawEnd(c) ==
    /\ Issued < ClientStrokes
    /\ LET a == clientAddOperation(clients[c].stateManager, "stroke", StrokeData,
                                   clients[c].stateManager.userId, nextOpId, now)
       IN  Does(c, a.sm,
                << [ event |-> "draw_end",
                     stroke |-> [ stroke |-> TRUE,
                                  operationId |-> a.result.id ] ] >>)
    /\ nextOpId' = nextOpId + 1
    /\ UNCHANGED serverSide

\* CollaborativeCanvas.handleUndo
handleUndo(c) ==
    /\ LET u == clientUndoOperation(clients[c].stateManager)
       IN  /\ u.result # NoOperation
           /\ Does(c, u.sm, << [ event |-> "undo",
                                 operationId |-> u.result.id ] >>)
    /\ UNCHANGED nextOpId
    /\ UNCHANGED serverSide

\* CollaborativeCanvas.handleRedo
handleRedo(c) ==
    /\ LET r == clientRedoOperation(clients[c].stateManager)
       IN  /\ r.result # NoOperation
           /\ Does(c, r.sm, << [ event |-> "redo",
                                 operationId |-> r.result.id ] >>)
    /\ UNCHANGED nextOpId
    /\ UNCHANGED serverSide

\* CollaborativeCanvas.handleClear
handleClear(c) ==
    /\ Issued < ClientStrokes
    /\ Does(c, clearHistory(clients[c].stateManager, nextOpId, now).sm,
            << [ event |-> "clear_canvas" ] >>)
    /\ nextOpId' = nextOpId + 1
    /\ UNCHANGED serverSide

\* the client takes the event at the head of what it has been sent:
\* handleRemoteDrawEnd, handleRemoteUndo, handleRemoteRedo, handleRemoteClear
Receive(c) ==
    /\ clients[c].pending # << >>
    /\ LET e == Head(clients[c].pending)
           sm == clients[c].stateManager
           after ==
             CASE e.event = "remote_draw_end" ->
                    clientAddOperation(sm, "stroke", e.body.stroke,
                                       e.body.userId, nextOpId, now).sm
               [] e.event = "remote_undo" ->
                    processRemoteUndo(sm, e.body.operationId, e.body.userId)
               [] e.event = "remote_redo" ->
                    processRemoteRedo(sm, e.body.operationId, e.body.userId)
               [] e.event = "remote_clear" ->
                    [ sm EXCEPT !.operations = << >>, !.currentIndex = -1 ]
       IN  /\ clients' = [ clients EXCEPT ![c].stateManager = after,
                                          ![c].pending = Tail(@) ]
           /\ nextOpId' = IF e.event = "remote_draw_end"
                          THEN nextOpId + 1 ELSE nextOpId
    /\ UNCHANGED serverSide

\* the message of connection s that the server handles next
Arrived(s, event) ==
    /\ s \in DOMAIN clients
    /\ clients[s].outbox # << >>
    /\ Head(clients[s].outbox).event = event

NextClient ==
    \/ \E c \in DOMAIN clients : handleDrawEnd(c)
    \/ \E c \in DOMAIN clients : handleUndo(c)
    \/ \E c \in DOMAIN clients : handleRedo(c)
    \/ \E c \in DOMAIN clients : handleClear(c)
    \/ \E c \in DOMAIN clients : Receive(c)
    \/ \E s \in connected :
          Arrived(s, "draw_end") /\ DrawEndOf(s, Head(clients[s].outbox).stroke)
    \/ \E s \in connected :
          Arrived(s, "undo") /\ Undo(s, Head(clients[s].outbox).operationId)
    \/ \E s \in connected :
          Arrived(s, "redo") /\ Redo(s, Head(clients[s].outbox).operationId)
    \/ \E s \in connected : Arrived(s, "clear_canvas") /\ ClearCanvas(s)

SpecClient == InitClient /\ [][NextClient]_vars

(***************************************************************************)
(* Properties of clients and server together.  A stroke is known by the    *)
(* id its author's client gave to its operation: the author's history has  *)
(* it as the id of the operation, the server's log and the histories of    *)
(* the other clients have it as operationId in the stroke data.            *)
(***************************************************************************)
StrokeKey(op) ==
    IF "operationId" \in DOMAIN op.data THEN op.data.operationId ELSE op.id

ActiveStrokes(ops) ==
    { StrokeKey(op) : op \in { o \in Range(ops) :
                                 o.type = "stroke" /\ o.state = "active" } }

\* the active strokes of client c, as of the clients cl
ClientActive(cl, c) == ActiveStrokes(cl[c].stateManager.operations)

ServerActive(rs) == ActiveStrokes(rs[1].operationLog.operations)

\* no message is on its way, in either direction
Quiescent(cl) ==
    \A c \in DOMAIN cl : cl[c].outbox = << >> /\ cl[c].pending = << >>

\* the strokes of a history, in its order
StrokeKeys(ops) ==
    LET strokes == SelectSeq(ops, LAMBDA o : o.type = "stroke")
    IN  [ i \in DOMAIN strokes |-> StrokeKey(strokes[i]) ]

\* client a has drawn a stroke and then client b has: the log of the room
\* and the histories of both clients hold the stroke of a and then the
\* stroke of b, and every message has been delivered
DrewInTurn(a, b) ==
    LET log == rooms[1].operationLog.operations
    IN  /\ Quiescent(clients)
        /\ Len(log) = 2
        /\ log[1].type = "stroke" /\ log[1].userId = clients[a].stateManager.userId
        /\ log[2].type = "stroke" /\ log[2].userId = clients[b].stateManager.userId
        /\ \A c \in {a, b} :
              StrokeKeys(clients[c].stateManager.operations) = StrokeKeys(log)

\* C34: with two clients A and B in one room, after A draws a stroke and then
\* B draws a stroke, an undo issued by A removes A's own stroke from the
\* active strokes of both clients, a following undo issued by B removes B's
\* stroke from both clients, and a following redo issued by A makes A's
\* stroke active again on both clients.
GlobalUndoRedoInTurn ==
    [][ \A a \in DOMAIN clients, b \in DOMAIN clients :
          ( a # b /\ DrewInTurn(a, b) )
          => LET log == rooms[1].operationLog.operations
                 ka == StrokeKey(log[1])
                 kb == StrokeKey(log[2])
                 everywhere(strokes) ==
                    \A c \in {a, b} : ClientActive(clients, c) = strokes
             IN  /\ ( everywhere({ka, kb}) /\ handleUndo(a) )
                    => ClientActive(clients', a) = {kb}
                 /\ ( everywhere({kb}) /\ handleUndo(b) )
                    => ClientActive(clients', b) = {}
                 /\ ( everywhere({}) /\ handleRedo(a) )
                    => ClientActive(clients', a) = {ka}
                 /\ Quiescent(clients')
                    => ClientActive(clients', a) = ClientActive(clients', b)
      ]_vars

\* the operations of client c's history that are the stroke with this key
LocalCopies(cl, c, key) ==
    { o \in Range(cl[c].stateManager.operations) :
        o.type = "stroke" /\ StrokeKey(o) = key }

\* client a has drawn a stroke and undone it, nothing else is in its
\* history, the server has handled both messages, and the stroke that
\* another client has drawn since is the next event a will handle
UndoneThenPeerDrew(a) ==
    LET sm == clients[a].stateManager
    IN  /\ Len(sm.operations) = 1
        /\ sm.operations[1].type = "stroke"
        /\ sm.operations[1].userId = sm.userId
        /\ sm.operations[1].state = "undone"
        /\ sm.operations[1].undoneBy = sm.userId
        /\ clients[a].outbox = << >>
        /\ Len(clients[a].pending) = 1
        /\ clients[a].pending[1].event = "remote_draw_end"
        /\ clients[a].pending[1].body.userId # sm.userId

\* C35: redo after a new operation: if user A draws op1, A undoes op1, user
\* B then draws op2, and A then issues redo, op1 becomes active again (its
\* tombstone is still in the history), both in A's client StateManager and
\* in the server's log.
RedoAfterNewOperation ==
    [][ \A a \in DOMAIN clients :
          LET op1 == clients[a].stateManager.operations[1].id
          IN  /\ ( UndoneThenPeerDrew(a) /\ Receive(a) )
                 => \E o \in LocalCopies(clients', a, op1) : o.state = "undone"
              /\ ( /\ Quiescent(clients)
                   /\ Len(clients[a].stateManager.operations) = 2
                   /\ \E o \in LocalCopies(clients, a, op1) :
                         o.state = "undone" /\ o.userId = clients[a].stateManager.userId
                   /\ handleRedo(a) )
                 => /\ \E o \in LocalCopies(clients', a, op1) : o.state = "active"
                    /\ op1 \in ServerActive(rooms)
      ]_vars

\* the strokes that the operation with this id is in client s's history
StrokesOfLocal(s, operationId) ==
    { StrokeKey(o) : o \in { x \in Range(clients[s].stateManager.operations) :
                               x.id = operationId /\ x.type = "stroke" } }

\* the emissions ems hold this event for every connection with a session of
\* room 1
ReachesEveryMember(ems, event) ==
    \E i \in DOMAIN ems :
       ems[i].event = event /\ SessionsOf(users, 1) \subseteq ems[i].to

\* C36: whenever a client's locally issued undo (or redo) changes that
\* client's state and is sent to the server, the server's log undergoes the
\* same state change for the same stroke and remote_undo (remote_redo) for
\* it reaches every member; once all in-flight messages of a room are
\* delivered, every client's set of active strokes equals the set of active
\* strokes of the server's log.
ClientsRefineServerLog ==
    [][ /\ \A s \in connected :
              ( /\ Arrived(s, "undo")
                /\ Undo(s, Head(clients[s].outbox).operationId) )
              => \A k \in StrokesOfLocal(s, Head(clients[s].outbox).operationId) :
                    /\ k \notin ServerActive(rooms')
                    /\ ReachesEveryMember(out', "remote_undo")
        /\ \A s \in connected :
              ( /\ Arrived(s, "redo")
                /\ Redo(s, Head(clients[s].outbox).operationId) )
              => \A k \in StrokesOfLocal(s, Head(clients[s].outbox).operationId) :
                    /\ k \in ServerActive(rooms')
                    /\ ReachesEveryMember(out', "remote_redo")
        /\ Quiescent(clients')
           => \A c \in DOMAIN clients' :
                 ClientActive(clients', c) = ServerActive(rooms')
      ]_vars

\* the ids of the operations of client c's history
HistoryIds(cl, c) == { o.id : o \in Range(cl[c].stateManager.operations) }

\* C37: the client StateManager never removes an operation from its history
\* when an operation is undone or when a new local or remote operation is
\* added, also when the addition follows an undo: operations are only
\* marked undone, and the history shrinks only by trimHistory beyond
\* maxHistorySize.
HistoryKeepsTombstones ==
    [][ \A c \in DOMAIN clients :
          ( /\ Len(clients[c].stateManager.operations) < maxHistorySize
            /\ \/ handleDrawEnd(c)
               \/ handleClear(c)
               \/ handleUndo(c)
               \/ handleRedo(c)
               \/ /\ clients[c].pending # << >>
                  /\ Head(clients[c].pending).event # "remote_clear"
                  /\ Receive(c) )
          => HistoryIds(clients, c) \subseteq HistoryIds(clients', c)
      ]_vars

====
